---- MODULE Spec2Model ----
(***************************************************************************)
(* Berkeley four-year plan generator (backend/app.py and                   *)
(* backend/rag_pipeline.py): the course catalog, the major requirement     *)
(* catalog, the deterministic plan assembler and the plan generation       *)
(* dispatch with its retrieval-augmented generation layer.                 *)
(*                                                                         *)
(* Representation of text.  A course identifier such as "MATH 1A" is the   *)
(* sequence of its space-free fragments separated by single spaces,        *)
(* <<"MATH", "1A">>; an empty fragment stands for an extra space, so       *)
(* "MATH  1A" is <<"MATH", "", "1A">>.  Two identifiers are the same       *)
(* string exactly when the sequences are equal.  A DataFrame cell is a     *)
(* sequence of at most one value, the empty sequence being a missing cell  *)
(* (NaN).  Free-text group descriptions are left out of requirement        *)
(* groups.                                                                 *)
(***************************************************************************)
EXTENDS Integers, Sequences, FiniteSets, TLC

\* Bounds of the explored inputs.
MaxCompleted == 2
MaxHorizon == 1
MaxWrites == 3

Row(subject, number, department, units, terms, description) ==
  [Subject |-> subject, CourseNumber |-> number, Departments |-> department,
   Units |-> units, TermsOffered |-> terms, CourseDescription |-> description]

Group(name, courses, units) ==
  [name |-> name, courses |-> courses, units |-> units]

Category(req_type, groups) ==
  [req_type |-> req_type, groups |-> groups]

MajorInfo(college, total_units, requirements) ==
  [college |-> college, total_units |-> total_units, requirements |-> requirements]

Range(s) == {s[i] : i \in DOMAIN s}

all_majors ==
  <<
    "Ancient Greek and Roman Studies", "Art History", "Art Practice", "Celtic Studies",
    "Comparative Literature", "Dutch Studies", "East Asian Languages and Cultures",
    "English", "Film and Media", "French", "German", "Italian Studies",
    "Middle Eastern Languages and Cultures", "Music", "Near Eastern Civilizations",
    "Philosophy", "Rhetoric", "Scandinavian", "Slavic",
    "South and Southeast Asian Studies", "Spanish and Portuguese",
    "Theater, Dance, and Performance Studies", "Integrative Biology",
    "Molecular and Cell Biology", "Neuroscience", "Public Health",
    "Robinson Life Science, Business, and Entrepreneurship Program",
    "American Studies", "Interdisciplinary Studies", "Legal Studies", "Media Studies",
    "Analytics", "Astrophysics", "Chemistry", "Earth and Planetary Science",
    "Mathematics", "Physics", "African American Studies", "Anthropology",
    "Asian American and Asian Diaspora Studies", "Chicano Studies",
    "Chicanx Latinx Studies", "Cognitive Science", "Economics", "Educational Sciences",
    "Ethnic Studies", "Gender and Women's Studies", "Geography", "Global Studies",
    "History", "Linguistics", "Native American Studies", "Political Economy",
    "Political Science", "Psychology", "Social Welfare", "Sociology",
    "Computer Science", "Data Science", "Statistics", "Chemical Biology",
    "Chemical Engineering", "Aerospace Engineering", "Bioengineering",
    "Civil Engineering", "Electrical and Computer Engineering",
    "Environmental Engineering Sciences", "Energy Engineering",
    "Engineering Mathematics and Statistics", "Engineering Physics",
    "Environmental Engineering Science",
    "Industrial Engineering and Operations Research",
    "Materials Science and Engineering", "Mechanical Engineering",
    "Nuclear Engineering", "Architecture", "Landscape Architecture",
    "Sustainable Environmental Design", "Urban Studies",
    "Conservation and Resource Studies", "Ecosystem Management and Forestry",
    "Environmental Economics and Policy", "Environmental Sciences",
    "Genetics and Plant Biology", "Microbial Biology",
    "Molecular Environmental Biology", "Nutrition & Metabolic Biology",
    "Society and Environment", "Business Administration"
  >>

major_prefix(major) ==
  CASE major = "Ancient Greek and Roman Studies" -> "ANCIENTG"
    [] major = "Art History" -> "ARTHISTO"
    [] major = "Art Practice" -> "ARTPRACT"
    [] major = "Celtic Studies" -> "CELTICST"
    [] major = "Comparative Literature" -> "COMPARAT"
    [] major = "Dutch Studies" -> "DUTCHSTU"
    [] major = "East Asian Languages and Cultures" -> "EASTASIA"
    [] major = "English" -> "ENGLISH"
    [] major = "Film and Media" -> "FILMANDM"
    [] major = "French" -> "FRENCH"
    [] major = "German" -> "GERMAN"
    [] major = "Italian Studies" -> "ITALIANS"
    [] major = "Middle Eastern Languages and Cultures" -> "MIDDLEEA"
    [] major = "Music" -> "MUSIC"
    [] major = "Near Eastern Civilizations" -> "NEAREAST"
    [] major = "Philosophy" -> "PHILOSOP"
    [] major = "Rhetoric" -> "RHETORIC"
    [] major = "Scandinavian" -> "SCANDINA"
    [] major = "Slavic" -> "SLAVIC"
    [] major = "South and Southeast Asian Studies" -> "SOUTHAND"
    [] major = "Spanish and Portuguese" -> "SPANISHA"
    [] major = "Theater, Dance, and Performance Studies" -> "THEATER,"
    [] major = "Integrative Biology" -> "INTEGRAT"
    [] major = "Molecular and Cell Biology" -> "MOLECULA"
    [] major = "Neuroscience" -> "NEUROSCI"
    [] major = "Public Health" -> "PUBLICHE"
    [] major = "Robinson Life Science, Business, and Entrepreneurship Program" -> "ROBINSON"
    [] major = "American Studies" -> "AMERICAN"
    [] major = "Interdisciplinary Studies" -> "INTERDIS"
    [] major = "Legal Studies" -> "LEGALSTU"
    [] major = "Media Studies" -> "MEDIASTU"
    [] major = "Analytics" -> "ANALYTIC"
    [] major = "Astrophysics" -> "ASTROPHY"
    [] major = "Chemistry" -> "CHEMISTR"
    [] major = "Earth and Planetary Science" -> "EARTHAND"
    [] major = "Mathematics" -> "MATHEMAT"
    [] major = "Physics" -> "PHYSICS"
    [] major = "African American Studies" -> "AFRICANA"
    [] major = "Anthropology" -> "ANTHROPO"
    [] major = "Asian American and Asian Diaspora Studies" -> "ASIANAME"
    [] major = "Chicano Studies" -> "CHICANOS"
    [] major = "Chicanx Latinx Studies" -> "CHICANXL"
    [] major = "Cognitive Science" -> "COGNITIV"
    [] major = "Economics" -> "ECONOMIC"
    [] major = "Educational Sciences" -> "EDUCATIO"
    [] major = "Ethnic Studies" -> "ETHNICST"
    [] major = "Gender and Women's Studies" -> "GENDERAN"
    [] major = "Geography" -> "GEOGRAPH"
    [] major = "Global Studies" -> "GLOBALST"
    [] major = "History" -> "HISTORY"
    [] major = "Linguistics" -> "LINGUIST"
    [] major = "Native American Studies" -> "NATIVEAM"
    [] major = "Political Economy" -> "POLITICA"
    [] major = "Political Science" -> "POLITICA"
    [] major = "Psychology" -> "PSYCHOLO"
    [] major = "Social Welfare" -> "SOCIALWE"
    [] major = "Sociology" -> "SOCIOLOG"
    [] major = "Computer Science" -> "COMPUTER"
    [] major = "Data Science" -> "DATASCIE"
    [] major = "Statistics" -> "STATISTI"
    [] major = "Chemical Biology" -> "CHEMICAL"
    [] major = "Chemical Engineering" -> "CHEMICAL"
    [] major = "Aerospace Engineering" -> "AEROSPAC"
    [] major = "Bioengineering" -> "BIOENGIN"
    [] major = "Civil Engineering" -> "CIVILENG"
    [] major = "Electrical and Computer Engineering" -> "ELECTRIC"
    [] major = "Environmental Engineering Sciences" -> "ENVIRONM"
    [] major = "Energy Engineering" -> "ENERGYEN"
    [] major = "Engineering Mathematics and Statistics" -> "ENGINEER"
    [] major = "Engineering Physics" -> "ENGINEER"
    [] major = "Environmental Engineering Science" -> "ENVIRONM"
    [] major = "Industrial Engineering and Operations Research" -> "INDUSTRI"
    [] major = "Materials Science and Engineering" -> "MATERIAL"
    [] major = "Mechanical Engineering" -> "MECHANIC"
    [] major = "Nuclear Engineering" -> "NUCLEARE"
    [] major = "Architecture" -> "ARCHITEC"
    [] major = "Landscape Architecture" -> "LANDSCAP"
    [] major = "Sustainable Environmental Design" -> "SUSTAINA"
    [] major = "Urban Studies" -> "URBANSTU"
    [] major = "Conservation and Resource Studies" -> "CONSERVA"
    [] major = "Ecosystem Management and Forestry" -> "ECOSYSTE"
    [] major = "Environmental Economics and Policy" -> "ENVIRONM"
    [] major = "Environmental Sciences" -> "ENVIRONM"
    [] major = "Genetics and Plant Biology" -> "GENETICS"
    [] major = "Microbial Biology" -> "MICROBIA"
    [] major = "Molecular Environmental Biology" -> "MOLECULA"
    [] major = "Nutrition & Metabolic Biology" -> "NUTRITIO"
    [] major = "Society and Environment" -> "SOCIETYA"
    [] major = "Business Administration" -> "BUSINESS"

create_sample_course_data ==
  <<
    Row("COMPSCI", "61A", "Computer Science", <<4>>,
        "Fall, Spring",
        "The Structure and Interpretation of Computer Programs"),
    Row("COMPSCI", "61B", "Computer Science", <<4>>,
        "Fall, Spring",
        "Data Structures"),
    Row("COMPSCI", "61C", "Computer Science", <<4>>,
        "Fall, Spring",
        "Great Ideas in Computer Architecture (Machine Structures)"),
    Row("COMPSCI", "70", "Computer Science", <<4>>,
        "Fall, Spring",
        "Discrete Mathematics and Probability Theory"),
    Row("COMPSCI", "170", "Computer Science", <<4>>,
        "Fall, Spring",
        "Efficient Algorithms and Intractable Problems"),
    Row("COMPSCI", "188", "Computer Science", <<4>>,
        "Fall, Spring",
        "Introduction to Artificial Intelligence"),
    Row("COMPSCI", "189", "Computer Science", <<4>>,
        "Fall, Spring",
        "Introduction to Machine Learning"),
    Row("DATA", "8", "Data Science", <<4>>,
        "Fall, Spring",
        "Foundations of Data Science"),
    Row("DATA", "100", "Data Science", <<4>>,
        "Fall, Spring",
        "Principles and Techniques of Data Science"),
    Row("DATA", "102", "Data Science", <<4>>,
        "Fall, Spring",
        "Data, Inference, and Decisions"),
    Row("MATH", "1A", "Mathematics", <<4>>,
        "Fall, Spring, Summer",
        "Calculus"),
    Row("MATH", "1B", "Mathematics", <<4>>,
        "Fall, Spring, Summer",
        "Calculus"),
    Row("MATH", "53", "Mathematics", <<4>>,
        "Fall, Spring",
        "Multivariable Calculus"),
    Row("MATH", "54", "Mathematics", <<4>>,
        "Fall, Spring",
        "Linear Algebra and Differential Equations"),
    Row("EECS", "16A", "Electrical Engineering and Computer Sciences", <<4>>,
        "Fall, Spring",
        "Designing Information Devices and Systems I"),
    Row("EECS", "16B", "Electrical Engineering and Computer Sciences", <<4>>,
        "Fall, Spring",
        "Designing Information Devices and Systems II"),
    Row("PHYSICS", "7A", "Physics", <<4>>,
        "Fall, Spring",
        "Physics for Scientists and Engineers"),
    Row("PHYSICS", "7B", "Physics", <<4>>,
        "Fall, Spring",
        "Physics for Scientists and Engineers"),
    Row("ENGLISH", "R1A", "English", <<4>>,
        "Fall, Spring, Summer",
        "Reading and Composition"),
    Row("ENGLISH", "R1B", "English", <<4>>,
        "Fall, Spring, Summer",
        "Reading and Composition"),
    Row("STAT", "20", "Statistics", <<4>>,
        "Fall, Spring",
        "Introduction to Probability and Statistics"),
    Row("STAT", "134", "Statistics", <<4>>,
        "Fall, Spring",
        "Concepts of Probability")
  >>

detailed_majors ==
  "Computer Science" :>
    MajorInfo("College of Computing, Data Science, and Society", 120, <<
      Category("lower_division", <<
          Group("Programming Fundamentals",
                << <<"COMPSCI", "61A">>, <<"COMPSCI", "61B">>, <<"COMPSCI", "61C">> >>, 12),
          Group("Discrete Mathematics",
                << <<"COMPSCI", "70">> >>, 4),
          Group("Mathematics",
                << <<"MATH", "1A">>, <<"MATH", "1B">>, <<"MATH", "53">>, <<"MATH", "54">> >>, 16),
          Group("Circuits",
                << <<"EECS", "16A">>, <<"EECS", "16B">> >>, 8) >>),
      Category("upper_division", <<
          Group("Core Upper Division",
                << <<"COMPSCI", "170">>, <<"COMPSCI", "188">>, <<"COMPSCI", "189">> >>, 12) >>),
      Category("breadth", <<
          Group("Reading and Composition",
                << <<"ENGLISH", "R1A">>, <<"ENGLISH", "R1B">> >>, 8) >>) >>)
  @@
  "Data Science" :>
    MajorInfo("College of Computing, Data Science, and Society", 120, <<
      Category("lower_division", <<
          Group("Data Science Foundations",
                << <<"DATA", "8">>, <<"COMPSCI", "61A">>, <<"COMPSCI", "61B">> >>, 12),
          Group("Mathematics",
                << <<"MATH", "1A">>, <<"MATH", "1B">>, <<"MATH", "53">>, <<"MATH", "54">> >>, 16),
          Group("Statistics",
                << <<"STAT", "20">>, <<"STAT", "134">> >>, 8) >>),
      Category("upper_division", <<
          Group("Data Science Core",
                << <<"DATA", "100">>, <<"DATA", "102">> >>, 8) >>),
      Category("breadth", <<
          Group("Reading and Composition",
                << <<"ENGLISH", "R1A">>, <<"ENGLISH", "R1B">> >>, 8) >>) >>)
  @@
  "Electrical and Computer Engineering" :>
    MajorInfo("College of Engineering", 120, <<
      Category("lower_division", <<
          Group("Programming",
                << <<"COMPSCI", "61A">>, <<"COMPSCI", "61B">>, <<"COMPSCI", "61C">> >>, 12),
          Group("Circuits and Signals",
                << <<"EECS", "16A">>, <<"EECS", "16B">> >>, 8),
          Group("Mathematics",
                << <<"MATH", "1A">>, <<"MATH", "1B">>, <<"MATH", "53">>, <<"MATH", "54">> >>, 16),
          Group("Physics",
                << <<"PHYSICS", "7A">>, <<"PHYSICS", "7B">> >>, 8) >>),
      Category("upper_division", <<
          Group("Core Technical",
                << <<"COMPSCI", "170">>, <<"COMPSCI", "188">> >>, 8) >>),
      Category("breadth", <<
          Group("Reading and Composition",
                << <<"ENGLISH", "R1A">>, <<"ENGLISH", "R1B">> >>, 8) >>) >>)

\* The college chosen for a major name in load_majors_data.
college_of(major) ==
  IF major \in {"Computer Science", "Data Science", "Statistics"}
    THEN "College of Computing, Data Science, and Society"
  ELSE IF major \in {"Chemical Biology", "Chemical Engineering"}
    THEN "College of Chemistry"
  ELSE IF major \in {"Aerospace Engineering", "Bioengineering", "Civil Engineering",
                     "Electrical and Computer Engineering",
                     "Environmental Engineering Sciences", "Energy Engineering",
                     "Engineering Mathematics and Statistics", "Engineering Physics",
                     "Environmental Engineering Science",
                     "Industrial Engineering and Operations Research",
                     "Materials Science and Engineering", "Mechanical Engineering",
                     "Nuclear Engineering"}
    THEN "College of Engineering"
  ELSE IF major \in {"Architecture", "Landscape Architecture",
                     "Sustainable Environmental Design", "Urban Studies"}
    THEN "College of Environmental Design"
  ELSE IF major \in {"Conservation and Resource Studies",
                     "Ecosystem Management and Forestry",
                     "Environmental Economics and Policy", "Environmental Sciences",
                     "Genetics and Plant Biology", "Microbial Biology",
                     "Molecular Environmental Biology", "Nutrition & Metabolic Biology",
                     "Society and Environment"}
    THEN "Rausser College of Natural Resources"
  ELSE IF major = "Business Administration"
    THEN "Haas School of Business"
  ELSE "College of Letters and Science"

\* The generic requirement skeleton every major starts with.
basic_structure(major) ==
  MajorInfo(college_of(major), 120, <<
    Category("lower_division", <<
        Group("Core Requirements", << <<"MATH", "1A">>, <<"ENGLISH", "R1A">> >>, 8) >>),
    Category("upper_division", <<
        Group("Major Requirements",
              << <<major_prefix(major), "100">>, <<major_prefix(major), "101">> >>, 8) >>),
    Category("breadth", <<
        Group("General Education", << <<"HISTORY", "1A">>, <<"PHYSICS", "7A">> >>, 8) >>) >>)


\* The value load_majors_data leaves in majors_data: the skeleton of every
\* listed major, overridden by the detailed entry where one exists.
load_majors_data ==
  [major \in Range(all_majors) |->
     IF major \in DOMAIN detailed_majors
       THEN detailed_majors[major]
       ELSE basic_structure(major)]

\* Contents a course CSV file may have (pd.read_csv of the chosen path).
\* csv_courses has unit values other than 4, a repeated row, a row that
\* differs only in letter case, and rows for a skeleton major's synthetic
\* identifiers; csv_courses_blank_units also has a missing units cell.
csv_courses ==
  <<
    Row("COMPSCI", "61A", "Computer Science", <<4>>, "Fall, Spring", "SICP"),
    Row("COMPSCI", "61B", "Computer Science", <<5>>, "Fall, Spring", "Data Structures"),
    Row("COMPSCI", "61C", "Computer Science", <<4>>, "-", "Machine Structures"),
    Row("COMPSCI", "170", "Computer Science", <<4>>, "Fall, Spring", "Algorithms"),
    Row("MATH", "1A", "Mathematics", <<5>>, "Fall, Spring, Summer", "Calculus"),
    Row("MATH", "1A", "Mathematics", <<2>>, "Summer", "Calculus (repeat)"),
    Row("math", "1a", "Mathematics", <<1>>, "Fall", "calculus"),
    Row("MATH", "1B", "Mathematics", <<3>>, "Fall, Spring", "Calculus"),
    Row("ENGLISH", "R1A", "English", <<4>>, "Fall, Spring", "Reading and Composition"),
    Row("ENGLISH", "R1B", "English", <<4>>, "Fall, Spring", "Reading and Composition"),
    Row("HISTORY", "1A", "History", <<3>>, "Fall", "History survey"),
    Row("HISTORY", "100", "History", <<4>>, "Fall", "Special Topics"),
    Row("HISTORY", "101", "History", <<4>>, "Spring", "Seminar"),
    Row("PHYSICS", "7A", "Physics", <<4>>, "Fall, Spring", "Physics")
  >>

csv_courses_blank_units ==
  <<
    Row("COMPSCI", "61A", "Computer Science", <<4>>, "Fall, Spring", "SICP"),
    Row("COMPSCI", "61B", "Computer Science", <<>>, "Fall, Spring", "Data Structures"),
    Row("MATH", "1A", "Mathematics", <<4>>, "Fall, Spring, Summer", "Calculus"),
    Row("ENGLISH", "R1A", "English", <<4>>, "Fall, Spring", "Reading and Composition"),
    Row("HISTORY", "1A", "History", <<4>>, "Fall", "History survey"),
    Row("PHYSICS", "7A", "Physics", <<>>, "Fall, Spring", "Physics")
  >>

CsvContents == {csv_courses, csv_courses_blank_units}

\* The candidate file locations of load_course_data, in the order tried.
csv_paths ==
  << "courses-data.csv", "../courses-report.2025-09-04 (7).csv",
     "courses-report.2025-09-04 (7).csv" >>

None == [tag |-> "None"]
DataFrame(rows) == [tag |-> "DataFrame", rows |-> rows]

VARIABLES
  phase,          \* position of the __main__ startup sequence
  courses_df,     \* global course table
  majors_data,    \* global major catalog
  rag_pipeline,   \* global RAG pipeline object, or None
  pc,             \* position of the plan request in flight
  entry,          \* function the caller invoked
  args,           \* arguments of the call
  semesters,      \* local list of semester entries
  semester_idx,   \* local target semester pointer (0-based)
  pos,            \* number of requirement courses the loops have visited
  rag_log,        \* what generate_schedule logged last for the call
  result,         \* value returned (or exception raised) by the call
  files,          \* environment: the file behind each candidate CSV path
  environ,        \* environment: the API key and whether index building fails
  previous,       \* the last assembler call a caller kept the result of
  sug,            \* the suggestion request in flight
  query,          \* the last catalog query and its answer
  users,          \* document store: user accounts
  schedules,      \* document store: saved schedules
  sessions,       \* session cookie of each client
  clock,          \* what datetime.now() and the ObjectId generator last gave
  http            \* the last account or schedule request and its response

envvars == <<files, environ>>
apivars == <<sug, query>>
storevars == <<users, schedules, sessions, clock, http>>

vars == <<phase, courses_df, majors_data, rag_pipeline, pc, entry, args,
          semesters, semester_idx, pos, rag_log, result, files, environ,
          previous, sug, query, users, schedules, sessions, clock, http>>

callvars == <<pc, entry, args, semesters, semester_idx, pos, rag_log, result>>

\* What the startup sequence and the plan requests leave alone.
restvars == <<envvars, previous, apivars, storevars>>

----------------------------------------------------------------------------
\* Course catalog store

\* str.split(): the non-empty fragments of the identifier.
split(course) == SelectSeq(course, LAMBDA t : t # "")

\* f"{subject} {number}"
course_code(subject, number) == <<subject, number>>

\* str.upper() on the lower-case spellings that occur in the catalogs and queries.
upper(s) ==
  CASE s = "math" -> "MATH"
    [] s = "compsci" -> "COMPSCI"
    [] s = "1a" -> "1A"
    [] s = "61a" -> "61A"
    [] s = "m" -> "M"
    [] s = "sicp" -> "SICP"
    [] OTHER -> s

\* Variant of get_course_info with a defect: the comparison ignores case.
get_course_info_ignores_case(df, subject, course_number) ==
  IF df.tag = "None" THEN None
  ELSE LET hits == {i \in DOMAIN df.rows :
                      /\ upper(df.rows[i].Subject) = upper(subject)
                      /\ upper(df.rows[i].CourseNumber) = upper(course_number)}
       IN IF hits # {}
            THEN [tag |-> "row",
                  row |-> df.rows[CHOOSE i \in hits : \A j \in hits : i <= j]]
            ELSE None

\* get_course_info: the first row matching subject and number exactly.
get_course_info(df, subject, course_number) ==
  IF df.tag = "None" THEN None
  ELSE LET hits == {i \in DOMAIN df.rows :
                      /\ df.rows[i].Subject = subject
                      /\ df.rows[i].CourseNumber = course_number}
       IN IF hits # {}
            THEN [tag |-> "row",
                  row |-> df.rows[CHOOSE i \in hits : \A j \in hits : i <= j]]
            ELSE None

----------------------------------------------------------------------------
\* Deterministic plan assembler

new_semester(year, term) ==
  [year |-> year, term |-> term, courses |-> <<>>, units |-> 0]

\* for term in ['Fall', 'Spring'] with its two break conditions.
RECURSIVE term_loop(_, _, _, _, _)
term_loop(year, graduation_year, graduation_semester, terms, acc) ==
  IF terms = <<>> THEN acc
  ELSE LET term == Head(terms) IN
    IF year = graduation_year /\ graduation_semester = "Fall" /\ term = "Spring"
      THEN acc
    ELSE IF year = graduation_year /\ graduation_semester = "Spring" /\ term = "Fall"
      THEN Append(acc, new_semester(year, term))
    ELSE term_loop(year, graduation_year, graduation_semester, Tail(terms),
                   Append(acc, new_semester(year, term)))

\* for year in range(current_year, graduation_year + 1)
RECURSIVE year_loop(_, _, _, _)
year_loop(year, graduation_year, graduation_semester, acc) ==
  IF year >= graduation_year + 1 THEN acc
  ELSE year_loop(year + 1, graduation_year, graduation_semester,
                 term_loop(year, graduation_year, graduation_semester,
                           <<"Fall", "Spring">>, acc))

\* Variant of build_semesters with a defect: a Spring graduation adds the
\* Spring semester of the graduation year.
build_semesters_ends_at_graduation(current_year, graduation_year, graduation_semester) ==
  LET sems == year_loop(current_year, graduation_year, graduation_semester, <<>>) IN
    IF graduation_semester = "Spring" /\ current_year <= graduation_year
      THEN Append(sems, new_semester(graduation_year, "Spring"))
      ELSE sems

\* The semester list from the current year to the graduation year.
build_semesters(current_year, graduation_year, graduation_semester) ==
  year_loop(current_year, graduation_year, graduation_semester, <<>>)

\* The three nested loops over requirement types, groups and courses visit
\* the courses in this order.
RECURSIVE group_courses(_, _, _)
group_courses(req_type, req, k) ==
  IF k > Len(req.courses) THEN <<>>
  ELSE <<[course |-> req.courses[k], req_type |-> req_type, req_name |-> req.name]>>
       \o group_courses(req_type, req, k + 1)

RECURSIVE category_courses(_, _)
category_courses(category, g) ==
  IF g > Len(category.groups) THEN <<>>
  ELSE group_courses(category.req_type, category.groups[g], 1)
       \o category_courses(category, g + 1)

\* Variant of requirement_courses that visits the requirement types in the
\* reverse of their listed order.
RECURSIVE requirement_courses_reversed(_, _)
requirement_courses_reversed(requirements, c) ==
  IF c > Len(requirements) THEN <<>>
  ELSE requirement_courses_reversed(requirements, c + 1)
       \o category_courses(requirements[c], 1)

RECURSIVE requirement_courses(_, _)
requirement_courses(requirements, c) ==
  IF c > Len(requirements) THEN <<>>
  ELSE category_courses(requirements[c], 1) \o requirement_courses(requirements, c + 1)

\* Variants of loop_body with a defect each, used to show that the checked
\* properties depend on the loop body: the completed-course test left out,
\* the pointer advanced only above 16 units, and a course that would pass 16
\* units left out.
loop_body_keeps_completed(df, completed_courses, loc, item) ==
  IF ~(loc.semester_idx < Len(loc.semesters)) THEN loc
  ELSE LET parts == split(item.course) IN
    IF ~(Len(parts) >= 2) THEN loc
    ELSE LET course_info == get_course_info(df, parts[1], parts[2]) IN
      IF course_info.tag = "None" THEN loc
      ELSE IF course_info.row.Units = <<>>
        THEN [loc EXCEPT !.raised = TRUE]
      ELSE
        LET i == loc.semester_idx + 1
            units == course_info.row.Units[1]
            placed == [subject |-> course_info.row.Subject,
                       number |-> course_info.row.CourseNumber,
                       title |-> course_info.row.CourseDescription,
                       units |-> units,
                       requirement_type |-> item.req_type,
                       requirement_name |-> item.req_name]
            sems == [loc.semesters EXCEPT
                       ![i].courses = Append(@, placed),
                       ![i].units = @ + units]
        IN [semesters |-> sems,
            semester_idx |-> IF sems[i].units >= 16
                               THEN loc.semester_idx + 1
                               ELSE loc.semester_idx,
            raised |-> FALSE]

loop_body_advances_late(df, completed_courses, loc, item) ==
  IF item.course \in completed_courses THEN loc
  ELSE IF ~(loc.semester_idx < Len(loc.semesters)) THEN loc
  ELSE LET parts == split(item.course) IN
    IF ~(Len(parts) >= 2) THEN loc
    ELSE LET course_info == get_course_info(df, parts[1], parts[2]) IN
      IF course_info.tag = "None" THEN loc
      ELSE IF course_info.row.Units = <<>>
        THEN [loc EXCEPT !.raised = TRUE]
      ELSE
        LET i == loc.semester_idx + 1
            units == course_info.row.Units[1]
            placed == [subject |-> course_info.row.Subject,
                       number |-> course_info.row.CourseNumber,
                       title |-> course_info.row.CourseDescription,
                       units |-> units,
                       requirement_type |-> item.req_type,
                       requirement_name |-> item.req_name]
            sems == [loc.semesters EXCEPT
                       ![i].courses = Append(@, placed),
                       ![i].units = @ + units]
        IN [semesters |-> sems,
            semester_idx |-> IF sems[i].units > 16
                               THEN loc.semester_idx + 1
                               ELSE loc.semester_idx,
            raised |-> FALSE]

loop_body_skips_at_threshold(df, completed_courses, loc, item) ==
  IF item.course \in completed_courses THEN loc
  ELSE IF ~(loc.semester_idx < Len(loc.semesters)) THEN loc
  ELSE LET parts == split(item.course) IN
    IF ~(Len(parts) >= 2) THEN loc
    ELSE LET course_info == get_course_info(df, parts[1], parts[2]) IN
      IF course_info.tag = "None" THEN loc
      ELSE IF course_info.row.Units = <<>>
        THEN [loc EXCEPT !.raised = TRUE]
      ELSE IF loc.semesters[loc.semester_idx + 1].units + course_info.row.Units[1] > 16
        THEN [loc EXCEPT !.semester_idx = @ + 1]
      ELSE
        LET i == loc.semester_idx + 1
            units == course_info.row.Units[1]
            placed == [subject |-> course_info.row.Subject,
                       number |-> course_info.row.CourseNumber,
                       title |-> course_info.row.CourseDescription,
                       units |-> units,
                       requirement_type |-> item.req_type,
                       requirement_name |-> item.req_name]
            sems == [loc.semesters EXCEPT
                       ![i].courses = Append(@, placed),
                       ![i].units = @ + units]
        IN [semesters |-> sems,
            semester_idx |-> IF sems[i].units >= 16
                               THEN loc.semester_idx + 1
                               ELSE loc.semester_idx,
            raised |-> FALSE]

\* Variant of loop_body that moves to the next semester after every course.
loop_body_advances_always(df, completed_courses, loc, item) ==
  IF item.course \in completed_courses THEN loc
  ELSE IF ~(loc.semester_idx < Len(loc.semesters)) THEN loc
  ELSE LET parts == split(item.course) IN
    IF ~(Len(parts) >= 2) THEN loc
    ELSE LET course_info == get_course_info(df, parts[1], parts[2]) IN
      IF course_info.tag = "None" THEN loc
      ELSE IF course_info.row.Units = <<>>
        THEN [loc EXCEPT !.raised = TRUE]
      ELSE
        LET i == loc.semester_idx + 1
            units == course_info.row.Units[1]
            placed == [subject |-> course_info.row.Subject,
                       number |-> course_info.row.CourseNumber,
                       title |-> course_info.row.CourseDescription,
                       units |-> units,
                       requirement_type |-> item.req_type,
                       requirement_name |-> item.req_name]
            sems == [loc.semesters EXCEPT
                       ![i].courses = Append(@, placed),
                       ![i].units = @ + units]
        IN [semesters |-> sems,
            semester_idx |-> loc.semester_idx + 1,
            raised |-> FALSE]

\* Variant of loop_body with a defect: a full semester moves the pointer two
\* semesters on.
loop_body_advances_by_two(df, completed_courses, loc, item) ==
  IF item.course \in completed_courses THEN loc
  ELSE IF ~(loc.semester_idx < Len(loc.semesters)) THEN loc
  ELSE LET parts == split(item.course) IN
    IF ~(Len(parts) >= 2) THEN loc
    ELSE LET course_info == get_course_info(df, parts[1], parts[2]) IN
      IF course_info.tag = "None" THEN loc
      ELSE IF course_info.row.Units = <<>>
        THEN [loc EXCEPT !.raised = TRUE]        \* int(nan) raises ValueError
      ELSE
        LET i == loc.semester_idx + 1
            units == course_info.row.Units[1]
            placed == [subject |-> course_info.row.Subject,
                       number |-> course_info.row.CourseNumber,
                       title |-> course_info.row.CourseDescription,
                       units |-> units,
                       requirement_type |-> item.req_type,
                       requirement_name |-> item.req_name]
            sems == [loc.semesters EXCEPT
                       ![i].courses = Append(@, placed),
                       ![i].units = @ + units]
        IN [semesters |-> sems,
            semester_idx |-> IF sems[i].units >= 16
                               THEN loc.semester_idx + 2
                               ELSE loc.semester_idx,
            raised |-> FALSE]

\* Variant of loop_body with a defect: past the end of the semester list a
\* semester is appended instead of the course being dropped.
loop_body_appends_semester(df, completed_courses, loc, item) ==
  IF item.course \in completed_courses THEN loc
  ELSE IF ~(loc.semester_idx < Len(loc.semesters))
    THEN [loc EXCEPT !.semesters = Append(@, new_semester(0, "Fall"))]
  ELSE LET parts == split(item.course) IN
    IF ~(Len(parts) >= 2) THEN loc
    ELSE LET course_info == get_course_info(df, parts[1], parts[2]) IN
      IF course_info.tag = "None" THEN loc
      ELSE IF course_info.row.Units = <<>>
        THEN [loc EXCEPT !.raised = TRUE]        \* int(nan) raises ValueError
      ELSE
        LET i == loc.semester_idx + 1
            units == course_info.row.Units[1]
            placed == [subject |-> course_info.row.Subject,
                       number |-> course_info.row.CourseNumber,
                       title |-> course_info.row.CourseDescription,
                       units |-> units,
                       requirement_type |-> item.req_type,
                       requirement_name |-> item.req_name]
            sems == [loc.semesters EXCEPT
                       ![i].courses = Append(@, placed),
                       ![i].units = @ + units]
        IN [semesters |-> sems,
            semester_idx |-> IF sems[i].units >= 16
                               THEN loc.semester_idx + 1
                               ELSE loc.semester_idx,
            raised |-> FALSE]

\* Variant of loop_body with a defect: a course that the catalog lacks is
\* listed with 4 units.
loop_body_lists_unknown(df, completed_courses, loc, item) ==
  IF item.course \in completed_courses THEN loc
  ELSE IF ~(loc.semester_idx < Len(loc.semesters)) THEN loc
  ELSE LET parts == split(item.course) IN
    IF ~(Len(parts) >= 2) THEN loc
    ELSE LET course_info == get_course_info(df, parts[1], parts[2]) IN
      IF course_info.tag = "None"
        THEN [loc EXCEPT
                !.semesters[loc.semester_idx + 1].courses =
                   Append(@, [subject |-> parts[1], number |-> parts[2],
                              title |-> "", units |-> 4,
                              requirement_type |-> item.req_type,
                              requirement_name |-> item.req_name]),
                !.semesters[loc.semester_idx + 1].units = @ + 4]
      ELSE IF course_info.row.Units = <<>>
        THEN [loc EXCEPT !.raised = TRUE]        \* int(nan) raises ValueError
      ELSE
        LET i == loc.semester_idx + 1
            units == course_info.row.Units[1]
            placed == [subject |-> course_info.row.Subject,
                       number |-> course_info.row.CourseNumber,
                       title |-> course_info.row.CourseDescription,
                       units |-> units,
                       requirement_type |-> item.req_type,
                       requirement_name |-> item.req_name]
            sems == [loc.semesters EXCEPT
                       ![i].courses = Append(@, placed),
                       ![i].units = @ + units]
        IN [semesters |-> sems,
            semester_idx |-> IF sems[i].units >= 16
                               THEN loc.semester_idx + 1
                               ELSE loc.semester_idx,
            raised |-> FALSE]

\* Variant of loop_body with a defect: a course that would take the semester
\* above 16 units is left out.
loop_body_skips_over_cap(df, completed_courses, loc, item) ==
  IF item.course \in completed_courses THEN loc
  ELSE IF ~(loc.semester_idx < Len(loc.semesters)) THEN loc
  ELSE LET parts == split(item.course) IN
    IF ~(Len(parts) >= 2) THEN loc
    ELSE LET course_info == get_course_info(df, parts[1], parts[2]) IN
      IF course_info.tag = "None" THEN loc
      ELSE IF course_info.row.Units = <<>>
        THEN [loc EXCEPT !.raised = TRUE]        \* int(nan) raises ValueError
      ELSE IF loc.semesters[loc.semester_idx + 1].units + course_info.row.Units[1] > 16
        THEN loc
      ELSE
        LET i == loc.semester_idx + 1
            units == course_info.row.Units[1]
            placed == [subject |-> course_info.row.Subject,
                       number |-> course_info.row.CourseNumber,
                       title |-> course_info.row.CourseDescription,
                       units |-> units,
                       requirement_type |-> item.req_type,
                       requirement_name |-> item.req_name]
            sems == [loc.semesters EXCEPT
                       ![i].courses = Append(@, placed),
                       ![i].units = @ + units]
        IN [semesters |-> sems,
            semester_idx |-> IF sems[i].units >= 16
                               THEN loc.semester_idx + 1
                               ELSE loc.semester_idx,
            raised |-> FALSE]

\* Variant of loop_body with a defect: the semester total grows by the
\* default 4 whatever the units of the course.
loop_body_adds_default_units(df, completed_courses, loc, item) ==
  IF item.course \in completed_courses THEN loc
  ELSE IF ~(loc.semester_idx < Len(loc.semesters)) THEN loc
  ELSE LET parts == split(item.course) IN
    IF ~(Len(parts) >= 2) THEN loc
    ELSE LET course_info == get_course_info(df, parts[1], parts[2]) IN
      IF course_info.tag = "None" THEN loc
      ELSE IF course_info.row.Units = <<>>
        THEN [loc EXCEPT !.raised = TRUE]        \* int(nan) raises ValueError
      ELSE
        LET i == loc.semester_idx + 1
            units == course_info.row.Units[1]
            placed == [subject |-> course_info.row.Subject,
                       number |-> course_info.row.CourseNumber,
                       title |-> course_info.row.CourseDescription,
                       units |-> units,
                       requirement_type |-> item.req_type,
                       requirement_name |-> item.req_name]
            sems == [loc.semesters EXCEPT
                       ![i].courses = Append(@, placed),
                       ![i].units = @ + 4]
        IN [semesters |-> sems,
            semester_idx |-> IF sems[i].units >= 16
                               THEN loc.semester_idx + 1
                               ELSE loc.semester_idx,
            raised |-> FALSE]

\* One pass of the innermost loop body on the local state
\* loc = [semesters, semester_idx, raised].
loop_body(df, completed_courses, loc, item) ==
  IF item.course \in completed_courses THEN loc
  ELSE IF ~(loc.semester_idx < Len(loc.semesters)) THEN loc
  ELSE LET parts == split(item.course) IN
    IF ~(Len(parts) >= 2) THEN loc
    ELSE LET course_info == get_course_info(df, parts[1], parts[2]) IN
      IF course_info.tag = "None" THEN loc
      ELSE IF course_info.row.Units = <<>>
        THEN [loc EXCEPT !.raised = TRUE]        \* int(nan) raises ValueError
      ELSE
        LET i == loc.semester_idx + 1
            units == course_info.row.Units[1]
            placed == [subject |-> course_info.row.Subject,
                       number |-> course_info.row.CourseNumber,
                       title |-> course_info.row.CourseDescription,
                       units |-> units,
                       requirement_type |-> item.req_type,
                       requirement_name |-> item.req_name]
            sems == [loc.semesters EXCEPT
                       ![i].courses = Append(@, placed),
                       ![i].units = @ + units]
        IN [semesters |-> sems,
            semester_idx |-> IF sems[i].units >= 16
                               THEN loc.semester_idx + 1
                               ELSE loc.semester_idx,
            raised |-> FALSE]

basic_plan(major, major_info, graduation_year, graduation_semester, sems) ==
  [major |-> major,
   college |-> major_info.college,
   graduation_year |-> graduation_year,
   graduation_semester |-> graduation_semester,
   total_units |-> major_info.total_units,
   semesters |-> sems,
   requirements |-> major_info.requirements,
   ai_recommendations |-> "Basic plan generated. For AI-powered recommendations, ensure GEMINI_API_KEY is configured."]

Returned(plan) == [tag |-> "plan", plan |-> plan]
Raised == [tag |-> "raise"]
Pending == [tag |-> "pending"]

\* Variant of basic_entry with a defect: an unknown major gets default major
\* information instead of not-found.
basic_entry_defaults_unknown(majors, a) ==
  IF a.major \notin DOMAIN majors
    THEN [pc |-> "done",
          result |-> [tag |-> "plan",
                      plan |-> basic_plan(a.major,
                                 MajorInfo("College of Letters and Science", 120, <<>>),
                                 a.graduation_year, a.graduation_semester,
                                 build_semesters(a.current_year, a.graduation_year,
                                                 a.graduation_semester))],
          semesters |-> << >>]
    ELSE [pc |-> "assemble", result |-> [tag |-> "pending"],
          semesters |-> build_semesters(a.current_year, a.graduation_year,
                                        a.graduation_semester)]

\* The start of generate_basic_four_year_plan: the catalog lookup of the major
\* and the semester list.
basic_entry(majors, a) ==
  IF a.major \notin DOMAIN majors
    THEN [pc |-> "done", result |-> None, semesters |-> << >>]
    ELSE [pc |-> "assemble", result |-> Pending,
          semesters |-> build_semesters(a.current_year, a.graduation_year,
                                        a.graduation_semester)]

\* The whole loop, from item k on.
RECURSIVE assemble_loop(_, _, _, _, _)
assemble_loop(df, completed_courses, loc, items, k) ==
  IF k > Len(items) \/ loc.raised THEN loc
  ELSE assemble_loop(df, completed_courses,
                     loop_body(df, completed_courses, loc, items[k]), items, k + 1)

\* generate_basic_four_year_plan as a function of its arguments and the
\* catalogs.
generate_basic_four_year_plan(df, majors, a) ==
  LET start == basic_entry(majors, a) IN
    IF start.pc = "done" THEN start.result
    ELSE LET major_info == majors[a.major]
             loc == assemble_loop(df, a.completed_courses,
                                  [semesters |-> start.semesters,
                                   semester_idx |-> 0, raised |-> FALSE],
                                  requirement_courses(major_info.requirements, 1), 1)
         IN IF loc.raised THEN Raised
            ELSE Returned(basic_plan(a.major, major_info, a.graduation_year,
                                     a.graduation_semester, loc.semesters))

----------------------------------------------------------------------------
\* Retrieval-augmented generation layer (BerkeleyRAGPipeline)

\* _fallback_schedule: for term in ['Fall', 'Spring'] with its continue and
\* break conditions.
RECURSIVE fallback_term_loop(_, _, _, _, _)
fallback_term_loop(year, graduation_year, graduation_semester, terms, acc) ==
  IF terms = <<>> THEN acc
  ELSE LET term == Head(terms) IN
    IF year = graduation_year - 1 /\ term = "Spring" /\ graduation_semester = "Fall"
      THEN fallback_term_loop(year, graduation_year, graduation_semester,
                              Tail(terms), acc)
    ELSE IF year = graduation_year /\ term = "Fall" /\ graduation_semester = "Spring"
      THEN Append(acc, new_semester(year, term))
    ELSE fallback_term_loop(year, graduation_year, graduation_semester, Tail(terms),
                            Append(acc, new_semester(year, term)))

\* for year in range(start_year, graduation_year)
RECURSIVE fallback_year_loop(_, _, _, _)
fallback_year_loop(year, graduation_year, graduation_semester, acc) ==
  IF year >= graduation_year THEN acc
  ELSE fallback_year_loop(year + 1, graduation_year, graduation_semester,
                          fallback_term_loop(year, graduation_year,
                                             graduation_semester,
                                             <<"Fall", "Spring">>, acc))

_fallback_schedule(majors, major, graduation_year, graduation_semester) ==
  LET start_year == graduation_year - 4
      major_info == IF major \in DOMAIN majors
                      THEN majors[major]
                      ELSE MajorInfo("College of Letters and Science", 120, <<>>)
  IN [major |-> major,
      college |-> major_info.college,
      graduation_year |-> graduation_year,
      graduation_semester |-> graduation_semester,
      total_units |-> major_info.total_units,
      semesters |-> fallback_year_loop(start_year, graduation_year,
                                       graduation_semester, <<>>),
      ai_recommendations |-> "Basic plan generated. For personalized recommendations, please ensure the RAG system is properly configured."]

\* The reply text of the external model is a sequence of tokens: a code fence
\* "~~~json" or "~~~", a brace, white space " ", prose "text" (no brace, no
\* fence), or the body of a JSON object (what stands between its braces).
llm_course(subject, number) ==
  [subject |-> subject, number |-> number, title |-> "Course Title", units |-> 4,
   requirement_type |-> "lower_division", requirement_name |-> "Requirement Category"]

llm_schedule(major, graduation_year, graduation_semester, course) ==
  [major |-> major,
   college |-> "College Name",
   graduation_year |-> graduation_year,
   graduation_semester |-> graduation_semester,
   total_units |-> 120,
   semesters |-> << [year |-> graduation_year - 4, term |-> "Fall",
                     courses |-> <<course>>, units |-> 4] >>,
   ai_recommendations |-> "Personalized advice and tips for academic success"]

\* The objects the bodies denote, for a request with the given arguments; a
\* body outside the domain is not valid JSON.
json_bodies(major, graduation_year, graduation_semester) ==
  [body \in {"schedule COMPSCI 61A", "schedule MATH 1B", "no major", "no semesters",
             "other major"} |->
     IF body = "schedule COMPSCI 61A"
       THEN llm_schedule(major, graduation_year, graduation_semester,
                         llm_course("COMPSCI", "61A"))
     ELSE IF body = "schedule MATH 1B"
       THEN llm_schedule(major, graduation_year, graduation_semester,
                         llm_course("MATH", "1B"))
     ELSE IF body = "other major"
       THEN llm_schedule("Undeclared", graduation_year, graduation_semester,
                         llm_course("MATH", "1B"))
     ELSE IF body = "no major"
       THEN [semesters |-> <<>>, total_units |-> 120]
     ELSE [major |-> major, total_units |-> 120]]

Responses ==
  { <<"text">>,
    <<"{", "schedule COMPSCI 61A", "}">>,
    <<"~~~json", " ", "{", "schedule MATH 1B", "}", " ", "~~~">>,
    <<" ", "~~~", "{", "schedule COMPSCI 61A", "}", "~~~", " ">>,
    <<"text", "{", "other major", "}", "text">>,
    <<"{", "no major", "}">>,
    <<"{", "no semesters", "}">>,
    <<"{", "}">>,
    <<"{", "trailing comma,", "}">>,
    <<"{", "schedule MATH 1B", "}", "text", "{", "no major", "}">>,
    <<"}", "text", "{">>,
    <<"~~~json", "~~~json", "{", "schedule MATH 1B", "}">> }

\* str.strip()
RECURSIVE lstrip(_)
lstrip(s) == IF s # <<>> /\ Head(s) = " " THEN lstrip(Tail(s)) ELSE s

RECURSIVE rstrip(_)
rstrip(s) ==
  IF s # <<>> /\ s[Len(s)] = " " THEN rstrip(SubSeq(s, 1, Len(s) - 1)) ELSE s

strip(s) == rstrip(lstrip(s))

\* The three code-fence removals of _parse_schedule_response.
remove_fences(response) ==
  LET r1 == IF response # <<>> /\ Head(response) = "~~~json"
              THEN Tail(response) ELSE response
      r2 == IF r1 # <<>> /\ Head(r1) = "~~~" THEN Tail(r1)
            ELSE IF r1 # <<>> /\ Head(r1) = "~~~json" THEN <<"text">> \o Tail(r1)
            ELSE r1
      r3 == IF r2 # <<>> /\ r2[Len(r2)] = "~~~"
              THEN SubSeq(r2, 1, Len(r2) - 1) ELSE r2
  IN r3

\* str.find and str.rfind, 0-based, -1 when absent.
find(s, t) ==
  IF \E i \in DOMAIN s : s[i] = t
    THEN (CHOOSE i \in DOMAIN s : s[i] = t /\ \A j \in DOMAIN s : s[j] = t => i <= j) - 1
    ELSE -1

rfind(s, t) ==
  IF \E i \in DOMAIN s : s[i] = t
    THEN (CHOOSE i \in DOMAIN s : s[i] = t /\ \A j \in DOMAIN s : s[j] = t => j <= i) - 1
    ELSE -1

\* json.loads: an object when the text is one pair of braces around a valid
\* body (or around nothing), JSONDecodeError otherwise.
json_loads(json_str, bodies) ==
  LET text == SelectSeq(json_str, LAMBDA t : t # " ") IN
    IF text = <<"{", "}">> THEN [tag |-> "object", value |-> << >>]
    ELSE IF Len(text) = 3 /\ text[1] = "{" /\ text[3] = "}" /\ text[2] \in DOMAIN bodies
      THEN [tag |-> "object", value |-> bodies[text[2]]]
    ELSE [tag |-> "JSONDecodeError"]

\* Variant of _parse_schedule_response with a defect: the required fields
\* are not checked.
_parse_schedule_response_skips_validation(majors, response, major, graduation_year, graduation_semester) ==
  LET cleaned == strip(remove_fences(strip(response)))
      start_idx == find(cleaned, "{")
      end_idx == rfind(cleaned, "}") + 1
      fallback == [error |-> TRUE,
                   schedule |-> _fallback_schedule(majors, major, graduation_year,
                                                   graduation_semester)]
  IN IF start_idx = -1 \/ end_idx = 0 THEN fallback
     ELSE LET loaded == json_loads(SubSeq(cleaned, start_idx + 1, end_idx),
                                   json_bodies(major, graduation_year,
                                               graduation_semester))
          IN IF loaded.tag = "JSONDecodeError" THEN fallback
             ELSE [error |-> FALSE, schedule |-> loaded.value]

\* _parse_schedule_response: the parsed object when it has both required
\* fields, the fallback schedule otherwise.
_parse_schedule_response(majors, response, major, graduation_year, graduation_semester) ==
  LET cleaned == strip(remove_fences(strip(response)))
      start_idx == find(cleaned, "{")
      end_idx == rfind(cleaned, "}") + 1
      fallback == [error |-> TRUE,
                   schedule |-> _fallback_schedule(majors, major, graduation_year,
                                                   graduation_semester)]
  IN IF start_idx = -1 \/ end_idx = 0 THEN fallback
     ELSE LET loaded == json_loads(SubSeq(cleaned, start_idx + 1, end_idx),
                                   json_bodies(major, graduation_year,
                                               graduation_semester))
          IN IF loaded.tag = "JSONDecodeError" THEN fallback
             ELSE IF \E field \in {"major", "semesters"} :
                       field \notin DOMAIN loaded.value
               THEN fallback
             ELSE [error |-> FALSE, schedule |-> loaded.value]

----------------------------------------------------------------------------
\* Inputs

GraduationYears == {2028}
GraduationSemesters == {"Fall", "Spring"}
CurrentYears(graduation_year) ==
  {graduation_year - 4} \cup ((graduation_year - MaxHorizon) .. (graduation_year + 1))

\* Majors asked for: the three detailed majors, skeleton majors of several
\* colleges (the synthetic identifiers of "History" exist in csv_courses), and
\* a name that is not a key of the catalog.
RequestedMajors ==
  { "Computer Science", "Data Science", "Electrical and Computer Engineering",
    "History", "Physics", "Business Administration", "NonexistentMajor" }

CompletedUniverse ==
  { <<"COMPSCI", "61A">>, <<"MATH", "1A">>, <<"COMPSCI", "170">>,
    <<"MATH", "", "1A">> }

CompletedSets == {C \in SUBSET CompletedUniverse : Cardinality(C) <= MaxCompleted}

Requests ==
  [major : RequestedMajors,
   graduation_year : GraduationYears,
   graduation_semester : GraduationSemesters,
   current_year : UNION {CurrentYears(g) : g \in GraduationYears},
   completed_courses : CompletedSets]

----------------------------------------------------------------------------
\* Startup (__main__)

\* A candidate path has no file, or a file that pd.read_csv reads or fails on.
FileMissing == [tag |-> "missing"]
CsvFile(rows, readable) == [tag |-> "file", rows |-> rows, readable |-> readable]

\* Variant of load_course_data with a defect: the loop over the candidate
\* paths has no break, so the last existing path is the one read.
load_course_data_last_existing(fs) ==
  LET existing == {i \in DOMAIN csv_paths : fs[csv_paths[i]].tag # "missing"} IN
    IF existing = {} THEN DataFrame(create_sample_course_data)
    ELSE LET csv_path == csv_paths[CHOOSE i \in existing : \A j \in existing : i >= j]
         IN IF fs[csv_path].readable
              THEN DataFrame(fs[csv_path].rows)
              ELSE DataFrame(create_sample_course_data)

\* load_course_data: the first existing candidate path is read; without one,
\* or when reading raises, the sample data is used.
load_course_data(fs) ==
  LET existing == {i \in DOMAIN csv_paths : fs[csv_paths[i]].tag # "missing"} IN
    IF existing = {} THEN DataFrame(create_sample_course_data)
    ELSE LET csv_path == csv_paths[CHOOSE i \in existing : \A j \in existing : i <= j]
         IN IF fs[csv_path].readable
              THEN DataFrame(fs[csv_path].rows)
              ELSE DataFrame(create_sample_course_data)

\* os.getenv('GEMINI_API_KEY') is a sequence of at most one string, empty when
\* the variable is not set.
NoKey == << >>

\* BerkeleyRAGPipeline(...): _build_vectorstore raises, or leaves a retriever
\* unless there is no document to index.
_build_vectorstore(df, majors, build_fails) ==
  IF build_fails THEN [tag |-> "raise"]
  ELSE [tag |-> "pipeline",
        retriever |-> ~(Len(df.rows) = 0 /\ DOMAIN majors = {})]

\* Variant of init_rag_pipeline with a defect: a pipeline whose index build
\* failed is kept, without a retriever.
init_rag_pipeline_keeps_failed(env, df, majors) ==
  IF env.GEMINI_API_KEY = NoKey \/ env.GEMINI_API_KEY = <<"">> THEN None
  ELSE LET built == _build_vectorstore(df, majors, env.build_fails) IN
         IF built.tag = "raise" THEN [tag |-> "pipeline", retriever |-> FALSE]
         ELSE built

\* init_rag_pipeline: the value of rag_pipeline afterwards.
init_rag_pipeline(env, df, majors) ==
  IF env.GEMINI_API_KEY = NoKey \/ env.GEMINI_API_KEY = <<"">> THEN None
  ELSE LET built == _build_vectorstore(df, majors, env.build_fails) IN
         IF built.tag = "raise" THEN None ELSE built

\* The environments of the plan generation specification: no CSV file, or one
\* of the two CSV contents; a key with a working index build, or no key.
PlanFileSystems ==
  { [p \in Range(csv_paths) |-> FileMissing],
    [p \in Range(csv_paths) |->
       IF p = csv_paths[1] THEN CsvFile(csv_courses, TRUE) ELSE FileMissing],
    [p \in Range(csv_paths) |->
       IF p = csv_paths[3] THEN CsvFile(csv_courses_blank_units, TRUE)
       ELSE FileMissing] }

PlanEnvirons ==
  { [GEMINI_API_KEY |-> <<"key">>, build_fails |-> FALSE],
    [GEMINI_API_KEY |-> NoKey, build_fails |-> FALSE] }

NoCall == [tag |-> "none"]
NoSuggestion == [pc |-> "idle"]
NoQuery == [tag |-> "none"]
NoRequest == [tag |-> "none"]

\* The state before __main__ runs, for the given environments and clients.
Boot(fileSystems, environs, clients) ==
  /\ phase = "load_course_data"
  /\ courses_df = None
  /\ majors_data = << >>
  /\ rag_pipeline = None
  /\ pc = "idle"
  /\ entry = "none"
  /\ args = << >>
  /\ semesters = << >>
  /\ semester_idx = 0
  /\ pos = 0
  /\ rag_log = "none"
  /\ result = Pending
  /\ files \in fileSystems
  /\ environ \in environs
  /\ previous = NoCall
  /\ sug = NoSuggestion
  /\ query = NoQuery
  /\ users = {}
  /\ schedules = {}
  /\ sessions = [c \in clients |-> << >>]
  /\ clock = 0
  /\ http = NoRequest

Init == Boot(PlanFileSystems, PlanEnvirons, {})

LoadCourseData ==
  /\ phase = "load_course_data"
  /\ courses_df' = load_course_data(files)
  /\ phase' = "load_majors_data"
  /\ UNCHANGED <<majors_data, rag_pipeline, callvars, restvars>>

LoadMajorsData ==
  /\ phase = "load_majors_data"
  /\ majors_data' = load_majors_data
  /\ phase' = "init_rag_pipeline"
  /\ UNCHANGED <<courses_df, rag_pipeline, callvars, restvars>>

InitRagPipeline ==
  /\ phase = "init_rag_pipeline"
  /\ rag_pipeline' = init_rag_pipeline(environ, courses_df, majors_data)
  /\ phase' = "serving"
  /\ UNCHANGED <<courses_df, majors_data, callvars, restvars>>

----------------------------------------------------------------------------
\* generate_basic_four_year_plan, one loop iteration per step

CallBasic ==
  /\ phase = "serving"
  /\ pc = "idle"
  /\ \E a \in Requests :
       /\ args' = a
       /\ entry' = "generate_basic_four_year_plan"
       /\ result' = basic_entry(majors_data, a).result
       /\ pc' = basic_entry(majors_data, a).pc
       /\ semesters' = basic_entry(majors_data, a).semesters
  /\ semester_idx' = 0
  /\ pos' = 0
  /\ rag_log' = "none"
  /\ UNCHANGED <<phase, courses_df, majors_data, rag_pipeline, restvars>>

\* Variant of AssembleStep with a defect: returning the plan empties the
\* requirement list of the major in the catalog.
AssembleStep_consumes_catalog ==
  /\ pc = "assemble"
  /\ LET major_info == majors_data[args.major]
         items == requirement_courses(major_info.requirements, 1)
     IN IF pos < Len(items)
          THEN LET loc == loop_body(courses_df, args.completed_courses,
                                    [semesters |-> semesters,
                                     semester_idx |-> semester_idx,
                                     raised |-> FALSE],
                                    items[pos + 1])
               IN /\ semesters' = loc.semesters
                  /\ semester_idx' = loc.semester_idx
                  /\ pos' = pos + 1
                  /\ IF loc.raised
                       THEN pc' = "done" /\ result' = Raised
                       ELSE pc' = "assemble" /\ result' = result
          ELSE /\ result' = Returned(basic_plan(args.major, major_info,
                                                args.graduation_year,
                                                args.graduation_semester, semesters))
               /\ pc' = "done"
               /\ UNCHANGED <<semesters, semester_idx, pos>>
  /\ majors_data' = IF pos < Len(requirement_courses(
                                   majors_data[args.major].requirements, 1))
                      THEN majors_data
                      ELSE [majors_data EXCEPT ![args.major].requirements = << >>]
  /\ UNCHANGED <<phase, courses_df, rag_pipeline, entry, args, rag_log, restvars>>

AssembleStep ==
  /\ pc = "assemble"
  /\ LET major_info == majors_data[args.major]
         items == requirement_courses(major_info.requirements, 1)
     IN IF pos < Len(items)
          THEN LET loc == loop_body(courses_df, args.completed_courses,
                                    [semesters |-> semesters,
                                     semester_idx |-> semester_idx,
                                     raised |-> FALSE],
                                    items[pos + 1])
               IN /\ semesters' = loc.semesters
                  /\ semester_idx' = loc.semester_idx
                  /\ pos' = pos + 1
                  /\ IF loc.raised
                       THEN pc' = "done" /\ result' = Raised
                       ELSE pc' = "assemble" /\ result' = result
          ELSE /\ result' = Returned(basic_plan(args.major, major_info,
                                                args.graduation_year,
                                                args.graduation_semester, semesters))
               /\ pc' = "done"
               /\ UNCHANGED <<semesters, semester_idx, pos>>
  /\ UNCHANGED <<phase, courses_df, majors_data, rag_pipeline, entry, args, rag_log,
                 restvars>>

----------------------------------------------------------------------------
\* generate_four_year_plan: the RAG pipeline when there is one, the basic
\* assembler otherwise.  generate_schedule catches every exception itself, so
\* the except branch of generate_four_year_plan is never taken.

\* Variant of dispatch_basic with a defect: the preferences are not passed on,
\* so the assembler starts from its default current year.
dispatch_basic_ignores_preferences(majors, a) ==
  basic_entry(majors, [a EXCEPT !.current_year = a.graduation_year - 4])

\* The branch without a pipeline: generate_basic_four_year_plan is called with
\* the arguments generate_four_year_plan received.
dispatch_basic(majors, a) == basic_entry(majors, a)

CallDispatch ==
  /\ phase = "serving"
  /\ pc = "idle"
  /\ \E a \in Requests :
       /\ args' = a
       /\ entry' = "generate_four_year_plan"
       /\ IF rag_pipeline.tag # "None"
            THEN IF ~rag_pipeline.retriever
                   THEN /\ result' = Returned(_fallback_schedule(majors_data, a.major,
                                         a.graduation_year, a.graduation_semester))
                        /\ pc' = "done"
                        /\ semesters' = << >>
                        /\ rag_log' = "Vector store not initialized"
                   ELSE /\ result' = Pending
                        /\ pc' = "rag_retrieve"
                        /\ semesters' = << >>
                        /\ rag_log' = "none"
            ELSE /\ result' = dispatch_basic(majors_data, a).result
                 /\ pc' = dispatch_basic(majors_data, a).pc
                 /\ semesters' = dispatch_basic(majors_data, a).semesters
                 /\ rag_log' = "none"
  /\ semester_idx' = 0
  /\ pos' = 0
  /\ UNCHANGED <<phase, courses_df, majors_data, rag_pipeline, restvars>>

\* generate_schedule: self.retriever.invoke(query) returns or raises.
RagRetrieve ==
  /\ pc = "rag_retrieve"
  /\ \E raises \in BOOLEAN :
       IF raises
         THEN /\ result' = Returned(_fallback_schedule(majors_data, args.major,
                               args.graduation_year, args.graduation_semester))
              /\ pc' = "done"
              /\ rag_log' = "Error generating RAG schedule"
         ELSE /\ result' = result
              /\ pc' = "rag_generate"
              /\ rag_log' = rag_log
  /\ UNCHANGED <<phase, courses_df, majors_data, rag_pipeline, entry, args,
                 semesters, semester_idx, pos, restvars>>

\* generate_schedule: chain.invoke({}) raises, or its reply is parsed.
RagGenerate ==
  /\ pc = "rag_generate"
  /\ \/ /\ result' = Returned(_fallback_schedule(majors_data, args.major,
                                args.graduation_year, args.graduation_semester))
        /\ rag_log' = "Error generating RAG schedule"
     \/ \E response \in Responses :
          LET parsed == _parse_schedule_response(majors_data, response, args.major,
                          args.graduation_year, args.graduation_semester)
          IN /\ result' = Returned(parsed.schedule)
             /\ rag_log' = IF parsed.error
                             THEN "Error parsing schedule response"
                             ELSE "Successfully generated schedule"
  /\ pc' = "done"
  /\ UNCHANGED <<phase, courses_df, majors_data, rag_pipeline, entry, args,
                 semesters, semester_idx, pos, restvars>>

\* The caller takes the result; the next request may start.
Return ==
  /\ pc = "done"
  /\ pc' = "idle"
  /\ entry' = "none"
  /\ args' = << >>
  /\ semesters' = << >>
  /\ semester_idx' = 0
  /\ pos' = 0
  /\ rag_log' = "none"
  /\ result' = Pending
  /\ UNCHANGED <<phase, courses_df, majors_data, rag_pipeline, restvars>>

Next ==
  \/ LoadCourseData
  \/ LoadMajorsData
  \/ InitRagPipeline
  \/ CallBasic
  \/ AssembleStep
  \/ CallDispatch
  \/ RagRetrieve
  \/ RagGenerate
  \/ Return

Spec == Init /\ [][Next]_vars

----------------------------------------------------------------------------
\* The assembler called twice with the same arguments

\* The caller keeps the arguments and the result of its first call.
Remember ==
  /\ pc = "done"
  /\ entry = "generate_basic_four_year_plan"
  /\ previous = NoCall
  /\ previous' = [tag |-> "call", args |-> args, result |-> result]
  /\ pc' = "idle"
  /\ entry' = "none"
  /\ args' = << >>
  /\ semesters' = << >>
  /\ semester_idx' = 0
  /\ pos' = 0
  /\ rag_log' = "none"
  /\ result' = Pending
  /\ UNCHANGED <<phase, courses_df, majors_data, rag_pipeline, envvars, apivars,
                 storevars>>

\* The first call, with any arguments.
FirstCall == previous = NoCall /\ CallBasic

\* generate_basic_four_year_plan called with the arguments of the kept call.
CallAgain ==
  /\ phase = "serving"
  /\ pc = "idle"
  /\ previous # NoCall
  /\ args' = previous.args
  /\ entry' = "generate_basic_four_year_plan"
  /\ result' = basic_entry(majors_data, previous.args).result
  /\ pc' = basic_entry(majors_data, previous.args).pc
  /\ semesters' = basic_entry(majors_data, previous.args).semesters
  /\ semester_idx' = 0
  /\ pos' = 0
  /\ rag_log' = "none"
  /\ UNCHANGED <<phase, courses_df, majors_data, rag_pipeline, restvars>>

\* One CSV catalog and no API key.
InitRepeat ==
  Boot({[p \in Range(csv_paths) |->
           IF p = csv_paths[1] THEN CsvFile(csv_courses, TRUE) ELSE FileMissing]},
       {[GEMINI_API_KEY |-> NoKey, build_fails |-> FALSE]}, {})

NextRepeat ==
  \/ LoadCourseData
  \/ LoadMajorsData
  \/ InitRagPipeline
  \/ FirstCall
  \/ AssembleStep
  \/ Remember
  \/ CallAgain
  \/ Return

SpecRepeat == InitRepeat /\ [][NextRepeat]_vars

----------------------------------------------------------------------------
\* Startup under every environment, followed by catalog lookups

\* Each candidate path is missing, holds one of the CSV contents, or holds a
\* file that pd.read_csv raises on.
StartupFileSystems ==
  [Range(csv_paths) ->
     {FileMissing, CsvFile(csv_courses, FALSE)}
       \cup {CsvFile(content, TRUE) : content \in CsvContents}]

\* The key is not set, empty or set; the index build fails or not.
StartupEnvirons ==
  [GEMINI_API_KEY : {NoKey, <<"">>, <<"key">>}, build_fails : BOOLEAN]

\* The (subject, number) pairs looked up: every row of every catalog, and
\* pairs that differ from a row in case or in one field.
LookupKeys ==
  {<<row.Subject, row.CourseNumber>> :
     row \in Range(create_sample_course_data) \cup Range(csv_courses)
              \cup Range(csv_courses_blank_units)}
    \cup {<<"COMPSCI", "61a">>, <<"compsci", "61A">>, <<"MATH", "1a">>,
          <<"math", "1A">>, <<"MATH", "61A">>, <<"COMPSCI", "1A">>,
          <<"MATH", "">>, <<"", "1A">>}

\* A call get_course_info(subject, number) and what it returns.
LookupCourse ==
  /\ phase = "serving"
  /\ \E key \in LookupKeys :
       query' = [tag |-> "get_course_info", subject |-> key[1], number |-> key[2],
                 result |-> get_course_info(courses_df, key[1], key[2])]
  /\ UNCHANGED <<phase, courses_df, majors_data, rag_pipeline, callvars, envvars,
                 previous, sug, storevars>>

InitStartup == Boot(StartupFileSystems, StartupEnvirons, {})

NextStartup ==
  \/ LoadCourseData
  \/ LoadMajorsData
  \/ InitRagPipeline
  \/ LookupCourse

SpecStartup == InitStartup /\ [][NextStartup]_vars

----------------------------------------------------------------------------
\* POST /api/ai-suggestions

Str(value) == [tag |-> "str", value |-> value]
Dict(value) == [tag |-> "dict", value |-> value]

\* Python's `not x` for None, strings and dictionaries.
falsy(x) ==
  \/ x = None
  \/ x.tag = "str" /\ x.value = ""
  \/ x.tag = "dict" /\ DOMAIN x.value = {}

Response(status, body) == [status |-> status, body |-> body]

\* The objects that the bodies of a suggestion reply stand for.
suggestion_bodies ==
  [body \in {"suggest MATH 1B", "no suggestions", "advice only"} |->
     IF body = "suggest MATH 1B"
       THEN [suggestions |-> <<[course_code |-> <<"MATH", "1B">>,
                                title |-> "Calculus", units |-> 4,
                                reason |-> "Continues MATH 1A",
                                category |-> "major requirement"]>>,
             advice |-> "Balance technical and breadth courses."]
     ELSE IF body = "no suggestions"
       THEN [suggestions |-> << >>, advice |-> "The semester is full."]
     ELSE [advice |-> "Ask an advisor."]]

SuggestionResponses ==
  { <<"text">>,
    <<"{", "suggest MATH 1B", "}">>,
    <<"~~~json", " ", "{", "suggest MATH 1B", "}", " ", "~~~">>,
    <<"text", "{", "no suggestions", "}", "text">>,
    <<"{", "advice only", "}">>,
    <<"{", "}">>,
    <<"{", "trailing comma,", "}">>,
    <<"{", "suggest MATH 1B", "}", "text", "{", "advice only", "}">>,
    <<"}", "text", "{">>,
    <<"{", "suggest MATH 1B">>,
    << >> }

\* What BerkeleyRAGPipeline.get_ai_suggestions returns when it gives up.
unable_to_generate ==
  [suggestions |-> << >>,
   advice |-> "Unable to generate suggestions at this time. Please try again later."]

\* What it returns without a retriever.
suggestions_unavailable ==
  [suggestions |-> << >>,
   advice |-> "AI suggestions unavailable. Please ensure the system is properly configured."]

\* The fallback response of the endpoint.
currently_unavailable ==
  [suggestions |-> << >>,
   advice |-> "AI suggestions are currently unavailable. Please ensure GEMINI_API_KEY is configured."]

\* Variant of parse_suggestions with a defect: the final return statement is
\* missing, so the function returns None when it finds no object.
parse_suggestions_returns_none(response) ==
  LET cleaned == remove_fences(strip(response))
      start_idx == find(cleaned, "{")
      end_idx == rfind(cleaned, "}") + 1
  IN IF start_idx # -1 /\ end_idx > 0
       THEN LET loaded == json_loads(SubSeq(cleaned, start_idx + 1, end_idx),
                                     suggestion_bodies)
            IN IF loaded.tag = "JSONDecodeError" THEN None
               ELSE loaded.value
       ELSE None

\* get_ai_suggestions from the reply on: fences removed, the text from the
\* first "{" to the last "}" parsed, the fixed answer when that fails.
parse_suggestions(response) ==
  LET cleaned == remove_fences(strip(response))
      start_idx == find(cleaned, "{")
      end_idx == rfind(cleaned, "}") + 1
  IN IF start_idx # -1 /\ end_idx > 0
       THEN LET loaded == json_loads(SubSeq(cleaned, start_idx + 1, end_idx),
                                     suggestion_bodies)
            IN IF loaded.tag = "JSONDecodeError" THEN unable_to_generate
               ELSE loaded.value
       ELSE unable_to_generate

SuggestionMajors == {None, Str(""), Str("Computer Science"), Str("NonexistentMajor")}

SuggestionSemesters ==
  {None, Dict(<< >>), Dict([term |-> "Spring", year |-> 2026]),
   Dict([year |-> 2026]), Str("Fall 2025")}

\* No value yet; the reply of the model is kept as a sequence of at most one
\* text.
NoResponse == [tag |-> "none"]

\* The request arrives: the 400 check, the answers without a pipeline or
\* without a retriever, and the query text, whose semester.get raises on a
\* semester that is not a dictionary.
SuggestCall ==
  /\ phase = "serving"
  /\ sug = NoSuggestion
  /\ \E major \in SuggestionMajors, semester \in SuggestionSemesters :
       LET request == [major |-> major, semester |-> semester,
                       raised |-> "none", reply |-> << >>]
           answered(raised, response) ==
             [request EXCEPT !.raised = raised]
               @@ [pc |-> "done", response |-> response]
       IN sug' =
            IF falsy(major) \/ falsy(semester)
              THEN answered("none",
                     Response(400, [error |-> "Major and semester are required"]))
            ELSE IF rag_pipeline = None
              THEN answered("none", Response(200, currently_unavailable))
            ELSE IF ~rag_pipeline.retriever
              THEN answered("none", Response(200, suggestions_unavailable))
            ELSE IF semester.tag # "dict"
              THEN answered("query", Response(200, unable_to_generate))
            ELSE request @@ [pc |-> "retrieve", response |-> NoResponse]
  /\ UNCHANGED <<phase, courses_df, majors_data, rag_pipeline, callvars, envvars,
                 previous, query, storevars>>

\* self.retriever.invoke(query) returns or raises.
SuggestRetrieve ==
  /\ sug.pc = "retrieve"
  /\ \E raises \in BOOLEAN :
       sug' = IF raises
                THEN [sug EXCEPT !.pc = "done", !.raised = "retrieval",
                                 !.response = Response(200, unable_to_generate)]
                ELSE [sug EXCEPT !.pc = "generate"]
  /\ UNCHANGED <<phase, courses_df, majors_data, rag_pipeline, callvars, envvars,
                 previous, query, storevars>>

\* chain.invoke({}) raises, or its reply is parsed and returned.
SuggestGenerate ==
  /\ sug.pc = "generate"
  /\ \/ sug' = [sug EXCEPT !.pc = "done", !.raised = "generation",
                           !.response = Response(200, unable_to_generate)]
     \/ \E response \in SuggestionResponses :
          sug' = [sug EXCEPT !.pc = "done", !.reply = <<response>>,
                            !.response = Response(200, parse_suggestions(response))]
  /\ UNCHANGED <<phase, courses_df, majors_data, rag_pipeline, callvars, envvars,
                 previous, query, storevars>>

\* The response is sent.
SuggestReturn ==
  /\ sug # NoSuggestion
  /\ sug.pc = "done"
  /\ sug' = NoSuggestion
  /\ UNCHANGED <<phase, courses_df, majors_data, rag_pipeline, callvars, envvars,
                 previous, query, storevars>>

\* The sample catalog, under every combination of key and index build.
InitSuggest ==
  Boot({[p \in Range(csv_paths) |-> FileMissing]}, StartupEnvirons, {})

NextSuggest ==
  \/ LoadCourseData
  \/ LoadMajorsData
  \/ InitRagPipeline
  \/ SuggestCall
  \/ SuggestRetrieve
  \/ SuggestGenerate
  \/ SuggestReturn

SpecSuggest == InitSuggest /\ [][NextSuggest]_vars

----------------------------------------------------------------------------
\* Catalog queries, and requests served concurrently

\* GET /api/majors: the keys of the major catalog in insertion order.
GetMajors ==
  /\ phase = "serving"
  /\ query' = [tag |-> "get_majors",
               response |-> Response(200, SelectSeq(all_majors,
                                       LAMBDA major : major \in DOMAIN majors_data))]
  /\ UNCHANGED <<phase, courses_df, majors_data, rag_pipeline, callvars, envvars,
                 previous, sug, storevars>>

\* Variant of GetMajorDetails with a defect: the entry is taken out of the
\* catalog (majors_data.pop) instead of read.
GetMajorDetails_pops_entry ==
  /\ phase = "serving"
  /\ \E major_name \in {"Computer Science", "History", "NonexistentMajor"} :
       /\ query' = [tag |-> "get_major_details", major_name |-> major_name,
                    response |-> IF major_name \notin DOMAIN majors_data
                                   THEN Response(404, [error |-> "Major not found"])
                                   ELSE Response(200, majors_data[major_name])]
       /\ majors_data' = [major \in DOMAIN majors_data \ {major_name} |->
                            majors_data[major]]
  /\ UNCHANGED <<phase, courses_df, rag_pipeline, callvars, envvars,
                 previous, sug, storevars>>

\* GET /api/major/<major_name>
GetMajorDetails ==
  /\ phase = "serving"
  /\ \E major_name \in {"Computer Science", "History", "NonexistentMajor"} :
       query' = [tag |-> "get_major_details", major_name |-> major_name,
                 response |-> IF major_name \notin DOMAIN majors_data
                                THEN Response(404, [error |-> "Major not found"])
                                ELSE Response(200, majors_data[major_name])]
  /\ UNCHANGED <<phase, courses_df, majors_data, rag_pipeline, callvars, envvars,
                 previous, sug, storevars>>

\* The option list of get_course_options: the requirement's courses that the
\* catalog has; int() of a missing units cell raises.
course_options(df, courses) ==
  LET found == SelectSeq(courses, LAMBDA course :
                 /\ Len(split(course)) >= 2
                 /\ get_course_info(df, split(course)[1], split(course)[2]) # None)
      info(k) == get_course_info(df, split(found[k])[1], split(found[k])[2]).row
  IN IF \E k \in DOMAIN found : info(k).Units = << >>
       THEN Raised
       ELSE [tag |-> "list",
             list |-> [k \in DOMAIN found |->
                         [subject |-> info(k).Subject,
                          number |-> info(k).CourseNumber,
                          title |-> info(k).CourseDescription,
                          units |-> info(k).Units[1],
                          terms_offered |-> info(k).TermsOffered,
                          department |-> info(k).Departments]]]

CourseOptionRequests ==
  { [major |-> Str("Computer Science"), requirement_type |-> Str("lower_division"),
     requirement_name |-> Str("Programming Fundamentals")],
    [major |-> Str("History"), requirement_type |-> Str("breadth"),
     requirement_name |-> Str("General Education")],
    [major |-> Str("Computer Science"), requirement_type |-> Str("lower_division"),
     requirement_name |-> None],
    [major |-> Str("NonexistentMajor"), requirement_type |-> Str("breadth"),
     requirement_name |-> Str("General Education")],
    [major |-> Str("Computer Science"), requirement_type |-> Str("electives"),
     requirement_name |-> Str("General Education")],
    [major |-> Str("Computer Science"), requirement_type |-> Str("breadth"),
     requirement_name |-> Str("General Education")] }

\* POST /api/course-options
GetCourseOptions ==
  /\ phase = "serving"
  /\ \E data \in CourseOptionRequests :
       LET major == data.major.value
           categories(major_info) ==
             {c \in DOMAIN major_info.requirements :
                major_info.requirements[c].req_type = data.requirement_type.value}
           groups(category) ==
             {g \in DOMAIN category.groups :
                category.groups[g].name = data.requirement_name.value}
           response ==
             IF \/ falsy(data.major) \/ falsy(data.requirement_type)
                \/ falsy(data.requirement_name)
               THEN Response(400, [error |-> "Missing required parameters"])
             ELSE IF major \notin DOMAIN majors_data
               THEN Response(404, [error |-> "Major not found"])
             ELSE IF categories(majors_data[major]) = {}
               THEN Response(404, [error |-> "Requirement type not found"])
             ELSE LET category == majors_data[major].requirements[
                                    CHOOSE c \in categories(majors_data[major]) : TRUE]
                  IN IF groups(category) = {}
                       THEN Response(404, [error |-> "Requirement not found"])
                       ELSE LET requirement ==
                                  category.groups[CHOOSE g \in groups(category) :
                                                    \A h \in groups(category) : g <= h]
                                options == course_options(courses_df, requirement.courses)
                            IN IF options = Raised
                                 THEN Response(500, [error |-> "Internal server error"])
                                 ELSE Response(200,
                                        [requirement_name |-> requirement.name,
                                         requirement_type |-> data.requirement_type.value,
                                         options |-> options.list])
       IN query' = [tag |-> "get_course_options", data |-> data, response |-> response]
  /\ UNCHANGED <<phase, courses_df, majors_data, rag_pipeline, callvars, envvars,
                 previous, sug, storevars>>

\* Search texts are sequences of fragments, as course identifiers are; the
\* number of characters of the fragments used.
chars(fragment) ==
  CASE fragment = "" -> 0
    [] fragment = "M" -> 1
    [] fragment = "1A" -> 2
    [] fragment \in {"MATH", "SICP"} -> 4
    [] OTHER -> 7

\* len() of a text: its fragments and the spaces between them.
RECURSIVE len(_)
len(text) ==
  IF text = << >> THEN 0
  ELSE chars(Head(text)) + (IF Tail(text) = << >> THEN 0 ELSE 1 + len(Tail(text)))

\* `query in text`, for whole fragments.
contains(text, q) ==
  \E i \in 0..Len(text) :
    i + Len(q) <= Len(text) /\ SubSeq(text, i + 1, i + Len(q)) = q

\* data.get('query', '').upper().strip()
search_text(raw) ==
  LET upper_case == [i \in DOMAIN raw |-> upper(raw[i])]
      RECURSIVE left(_)
      left(t) == IF t # << >> /\ Head(t) = "" THEN left(Tail(t)) ELSE t
      RECURSIVE right(_)
      right(t) == IF t # << >> /\ t[Len(t)] = ""
                    THEN right(SubSeq(t, 1, Len(t) - 1)) ELSE t
  IN right(left(upper_case))

\* The basic search of search_courses: the first ten rows whose code or
\* upper-cased title holds the query; int() of a missing units cell raises.
basic_search(df, q) ==
  LET matching == SelectSeq(df.rows, LAMBDA row :
                    \/ contains(course_code(row.Subject, row.CourseNumber), q)
                    \/ contains(<<upper(row.CourseDescription)>>, q))
      first_ten == SubSeq(matching, 1, IF Len(matching) < 10 THEN Len(matching) ELSE 10)
  IN IF \E k \in DOMAIN first_ten : first_ten[k].Units = << >>
       THEN Raised
       ELSE [tag |-> "list",
             list |-> [k \in DOMAIN first_ten |->
                         [code |-> course_code(first_ten[k].Subject,
                                               first_ten[k].CourseNumber),
                          title |-> first_ten[k].CourseDescription,
                          units |-> first_ten[k].Units[1],
                          terms |-> first_ten[k].TermsOffered]]]

\* BerkeleyRAGPipeline.search_courses: the course documents among the
\* similarity results, given as row positions; nothing when the search raises.
rag_search(df, hits) ==
  [k \in DOMAIN hits |->
     [code |-> course_code(df.rows[hits[k]].Subject, df.rows[hits[k]].CourseNumber),
      subject |-> df.rows[hits[k]].Subject,
      number |-> df.rows[hits[k]].CourseNumber,
      department |-> df.rows[hits[k]].Departments,
      units |-> IF df.rows[hits[k]].Units = << >> THEN 0 ELSE df.rows[hits[k]].Units[1],
      terms |-> df.rows[hits[k]].TermsOffered]]

SearchQueries ==
  {<< >>, <<"m">>, <<"", "math", "">>, <<"math", "1A">>, <<"sicp">>, <<"PHYSICS">>}

\* POST /api/search-courses
SearchCourses ==
  /\ phase = "serving"
  /\ \E raw \in SearchQueries, hits \in {<< >>, <<2, 1>>} :
       LET q == search_text(raw)
           basic == basic_search(courses_df, q)
           response ==
             IF q = << >> \/ len(q) < 2 THEN Response(200, [courses |-> << >>])
             ELSE IF rag_pipeline # None /\ hits # << >>
               THEN Response(200, [courses |-> rag_search(courses_df, hits)])
             ELSE IF basic = Raised
               THEN Response(500, [error |-> "Internal server error"])
             ELSE Response(200, [courses |-> basic.list])
       IN query' = [tag |-> "search_courses", raw |-> raw, response |-> response]
  /\ UNCHANGED <<phase, courses_df, majors_data, rag_pipeline, callvars, envvars,
                 previous, sug, storevars>>

\* The plan requests made while other requests are in flight.
ConcurrentRequests ==
  {a \in Requests : /\ a.major = "Computer Science"
                    /\ a.graduation_semester = "Spring"
                    /\ a.current_year = a.graduation_year - 4
                    /\ a.completed_courses = {}}

\* POST /api/generate-plan
GeneratePlan == CallDispatch /\ args' \in ConcurrentRequests

\* POST /api/ai-suggestions with a major and a semester
Suggest ==
  /\ SuggestCall
  /\ sug'.major = Str("Computer Science")
  /\ sug'.semester = Dict([term |-> "Spring", year |-> 2026])

\* A CSV catalog with missing unit cells, with and without a pipeline.
InitConcurrent ==
  Boot({[p \in Range(csv_paths) |->
           IF p = csv_paths[3] THEN CsvFile(csv_courses_blank_units, TRUE)
           ELSE FileMissing]},
       PlanEnvirons, {})

\* The requests are served by threads: the steps of a plan request, of a
\* suggestion request and the catalog queries interleave.
NextConcurrent ==
  \/ LoadCourseData
  \/ LoadMajorsData
  \/ InitRagPipeline
  \/ GeneratePlan
  \/ AssembleStep
  \/ RagRetrieve
  \/ RagGenerate
  \/ Return
  \/ Suggest
  \/ SuggestRetrieve
  \/ SuggestGenerate
  \/ SuggestReturn
  \/ GetMajors
  \/ GetMajorDetails
  \/ GetCourseOptions
  \/ SearchCourses

SpecConcurrent == InitConcurrent /\ [][NextConcurrent]_vars

----------------------------------------------------------------------------
\* Accounts and saved schedules (MongoDB collections users and schedules)

\* str(ObjectId): 24 hexadecimal characters; value tells the texts apart.
str(oid) == [chars |-> 24, hex |-> TRUE, value |-> oid]

\* Variant of ObjectId with a defect: a text that is too short is padded
\* instead of rejected.
ObjectId_pads_short_text(text) ==
  IF text.hex THEN [tag |-> "ObjectId", value |-> text.value]
  ELSE [tag |-> "InvalidId"]

\* ObjectId(text): InvalidId unless the text is 24 hexadecimal characters.
ObjectId(text) ==
  IF text.chars = 24 /\ text.hex THEN [tag |-> "ObjectId", value |-> text.value]
  ELSE [tag |-> "InvalidId"]

\* Variant of normalized with a defect: the address is trimmed, upper-case
\* letters stay.
normalized_keeps_case(email) ==
  IF falsy(email) THEN ""
  ELSE CASE email.value = "  " -> ""
         [] email.value = " Ann@Berkeley.edu " -> "Ann@Berkeley.edu"
         [] OTHER -> email.value

\* (email or '').strip().lower() on the addresses used.
normalized(email) ==
  IF falsy(email) THEN ""
  ELSE CASE email.value = "  " -> ""
         [] email.value = " Ann@Berkeley.edu " -> "ann@berkeley.edu"
         [] OTHER -> email.value

\* len(password) on the passwords used.
password_len(password) ==
  CASE password = "" -> 0
    [] password = "short" -> 5
    [] OTHER -> 7

\* str.strip() on the schedule names used.
stripped(name) ==
  CASE name = "  " -> ""
    [] name = " Plan B " -> "Plan B"
    [] OTHER -> name

Clients == {"browser 1", "browser 2"}
\* The JSON bodies of the signup and login requests.
SignupForms ==
  { [email |-> Str(" Ann@Berkeley.edu "), password |-> "secret1"],
    [email |-> Str("ann@berkeley.edu"), password |-> "secret1"],
    [email |-> Str("bob@berkeley.edu"), password |-> "secret1"],
    [email |-> Str("bob@berkeley.edu"), password |-> "short"],
    [email |-> None, password |-> "secret1"] }

LoginForms ==
  { [email |-> Str(" Ann@Berkeley.edu "), password |-> "secret1"],
    [email |-> Str("bob@berkeley.edu"), password |-> "secret1"],
    [email |-> Str("bob@berkeley.edu"), password |-> "secret2"],
    [email |-> Str("  "), password |-> "secret1"] }

\* The JSON bodies of the schedule creations and updates.
CreateBodies ==
  { [name |-> None, data |-> Dict([plan |-> "A"])],
    [name |-> Str(" Plan B "), data |-> Dict(<< >>)],
    [name |-> Str("  "), data |-> None] }

PutBodies ==
  { [name |-> None, data |-> None],
    [name |-> Str(" Plan B "), data |-> Dict([plan |-> "B"])],
    [name |-> Str("  "), data |-> Dict(<< >>)] }

\* The schedule identifiers of the request paths: the identifier of every
\* stored schedule and one of no schedule, the same texts with the last
\* character missing, and a text with a letter that is no hexadecimal digit.
ScheduleIds(rows) ==
  {str(oid) : oid \in {row._id : row \in rows} \cup {0}}
    \cup {[chars |-> 23, hex |-> TRUE, value |-> row._id] : row \in rows}
    \cup {[chars |-> 24, hex |-> FALSE, value |-> 0]}

\* The request and response kept in http.
Exchange(client, op, request, status, body) ==
  [client |-> client, op |-> op, request |-> request, status |-> status,
   body |-> body, at |-> clock]

Unauthorized == [error |-> "Unauthorized"]

\* POST /api/auth/signup
Signup(client) ==
  /\ phase = "serving"
  /\ http = NoRequest
  /\ \E request \in SignupForms :
       LET email == normalized(request.email)
           password == request.password
           now == clock + 1
           user_id == str(now)
       IN IF email = "" \/ password = ""
            THEN /\ http' = Exchange(client, "signup", request, 400,
                                     [error |-> "Email and password are required"])
                 /\ UNCHANGED <<users, sessions, clock>>
          ELSE IF password_len(password) < 6
            THEN /\ http' = Exchange(client, "signup", request, 400,
                             [error |-> "Password must be at least 6 characters"])
                 /\ UNCHANGED <<users, sessions, clock>>
          ELSE IF \E user \in users : user.email = email
            THEN /\ http' = Exchange(client, "signup", request, 409,
                                     [error |-> "Email already registered"])
                 /\ UNCHANGED <<users, sessions, clock>>
          ELSE /\ clock < MaxWrites
               /\ users' = users \cup {[_id |-> now, email |-> email,
                                         password_hash |-> password,
                                         created_at |-> now]}
               /\ sessions' = [sessions EXCEPT
                                 ![client] = [user_id |-> user_id, email |-> email]]
               /\ clock' = now
               /\ http' = [Exchange(client, "signup", request, 200,
                                    [id |-> user_id, email |-> email])
                             EXCEPT !.at = now]
  /\ UNCHANGED <<phase, courses_df, majors_data, rag_pipeline, callvars, envvars,
                 previous, apivars, schedules>>

\* POST /api/auth/login
Login(client) ==
  /\ phase = "serving"
  /\ http = NoRequest
  /\ \E request \in LoginForms :
       LET email == normalized(request.email)
           password == request.password
           found == {user \in users : user.email = email}
       IN IF email = "" \/ password = ""
            THEN /\ http' = Exchange(client, "login", request, 400,
                                     [error |-> "Email and password are required"])
                 /\ UNCHANGED sessions
          ELSE IF found = {} \/ (CHOOSE user \in found : TRUE).password_hash # password
            THEN /\ http' = Exchange(client, "login", request, 401,
                                     [error |-> "Invalid credentials"])
                 /\ UNCHANGED sessions
          ELSE LET user == CHOOSE user \in found : TRUE IN
                 /\ sessions' = [sessions EXCEPT
                                   ![client] = [user_id |-> str(user._id),
                                                email |-> email]]
                 /\ http' = Exchange(client, "login", request, 200,
                                     [id |-> str(user._id), email |-> email])
  /\ UNCHANGED <<phase, courses_df, majors_data, rag_pipeline, callvars, envvars,
                 previous, apivars, users, schedules, clock>>

\* POST /api/auth/logout
Logout(client) ==
  /\ phase = "serving"
  /\ http = NoRequest
  /\ sessions' = [sessions EXCEPT ![client] = << >>]
  /\ http' = Exchange(client, "logout", << >>, 200, [ok |-> TRUE])
  /\ UNCHANGED <<phase, courses_df, majors_data, rag_pipeline, callvars, envvars,
                 previous, apivars, users, schedules, clock>>

\* The JSON form of a stored schedule.
schedule_json(row) ==
  [id |-> str(row._id), name |-> row.name, data |-> row.data,
   created_at |-> row.created_at, updated_at |-> row.updated_at]

\* find(...).sort('updated_at', -1) as a list.
RECURSIVE sorted_by_updated_at(_)
sorted_by_updated_at(rows) ==
  IF rows = {} THEN << >>
  ELSE LET latest == CHOOSE row \in rows :
                       \A other \in rows :
                         \/ other.updated_at < row.updated_at
                         \/ other.updated_at = row.updated_at /\ other._id >= row._id
       IN <<latest>> \o sorted_by_updated_at(rows \ {latest})

\* Variant of find_schedules with a defect: the filter leaves out user_id.
find_schedules_of_anyone(rows, oid, user_id) ==
  {row \in rows : row._id = oid.value}

\* The documents matching {'_id': oid, 'user_id': user_id}.
find_schedules(rows, oid, user_id) ==
  {row \in rows : row._id = oid.value /\ row.user_id = user_id}

\* GET /api/schedules
ListSchedules(client) ==
  /\ phase = "serving"
  /\ http = NoRequest
  /\ http' =
       IF "user_id" \notin DOMAIN sessions[client]
         THEN Exchange(client, "list", << >>, 401, Unauthorized)
         ELSE LET rows == sorted_by_updated_at(
                            {row \in schedules :
                               row.user_id = sessions[client].user_id})
              IN Exchange(client, "list", << >>, 200,
                          [k \in DOMAIN rows |-> schedule_json(rows[k])])
  /\ UNCHANGED <<phase, courses_df, majors_data, rag_pipeline, callvars, envvars,
                 previous, apivars, users, schedules, sessions, clock>>

\* POST /api/schedules
CreateSchedule(client) ==
  /\ phase = "serving"
  /\ http = NoRequest
  /\ \E request \in CreateBodies :
       LET data == request.data
           name == stripped(IF falsy(request.name) THEN "My Plan"
                            ELSE request.name.value)
           now == clock + 1
       IN IF "user_id" \notin DOMAIN sessions[client]
            THEN /\ http' = Exchange(client, "create", request, 401, Unauthorized)
                 /\ UNCHANGED <<schedules, clock>>
          ELSE IF falsy(data)
            THEN /\ http' = Exchange(client, "create", request, 400,
                                     [error |-> "Missing schedule data"])
                 /\ UNCHANGED <<schedules, clock>>
          ELSE /\ clock < MaxWrites
               /\ schedules' = schedules \cup
                                 {[_id |-> now,
                                   user_id |-> sessions[client].user_id,
                                   name |-> name, data |-> data,
                                   created_at |-> now, updated_at |-> now]}
               /\ clock' = now
               /\ http' = [Exchange(client, "create", request, 201,
                                    [id |-> str(now), name |-> name])
                             EXCEPT !.at = now]
  /\ UNCHANGED <<phase, courses_df, majors_data, rag_pipeline, callvars, envvars,
                 previous, apivars, users, sessions>>

\* GET /api/schedules/<schedule_id>
GetSchedule(client) ==
  /\ phase = "serving"
  /\ http = NoRequest
  /\ \E schedule_id \in ScheduleIds(schedules) :
       LET oid == ObjectId(schedule_id)
           request == [schedule_id |-> schedule_id]
       IN http' =
            IF "user_id" \notin DOMAIN sessions[client]
              THEN Exchange(client, "get", request, 401, Unauthorized)
            ELSE IF oid.tag = "InvalidId"
              THEN Exchange(client, "get", request, 400, [error |-> "Invalid id"])
            ELSE LET found == find_schedules(schedules, oid,
                                             sessions[client].user_id)
                 IN IF found = {}
                      THEN Exchange(client, "get", request, 404,
                                    [error |-> "Not found"])
                      ELSE Exchange(client, "get", request, 200,
                                    schedule_json(CHOOSE row \in found : TRUE))
  /\ UNCHANGED <<phase, courses_df, majors_data, rag_pipeline, callvars, envvars,
                 previous, apivars, users, schedules, sessions, clock>>

\* Variant of PutSchedule with a defect: the name of the request replaces
\* the stored name even when it is empty.
PutSchedule_overwrites_name(client) ==
  /\ phase = "serving"
  /\ http = NoRequest
  /\ \E schedule_id \in ScheduleIds(schedules), body \in PutBodies :
       LET oid == ObjectId(schedule_id)
           request == [schedule_id |-> schedule_id, name |-> body.name,
                       data |-> body.data]
           data == body.data
           name == stripped(IF falsy(body.name) THEN "" ELSE body.name.value)
           now == clock + 1
       IN IF "user_id" \notin DOMAIN sessions[client]
            THEN /\ http' = Exchange(client, "put", request, 401, Unauthorized)
                 /\ UNCHANGED <<schedules, clock>>
          ELSE IF oid.tag = "InvalidId"
            THEN /\ http' = Exchange(client, "put", request, 400,
                                     [error |-> "Invalid id"])
                 /\ UNCHANGED <<schedules, clock>>
          ELSE LET found == find_schedules(schedules, oid,
                                           sessions[client].user_id)
               IN IF found = {}
                    THEN /\ http' = Exchange(client, "put", request, 404,
                                             [error |-> "Not found"])
                         /\ UNCHANGED <<schedules, clock>>
                    ELSE LET row == CHOOSE row \in found : TRUE
                             updated ==
                               [row EXCEPT
                                  !.updated_at = now,
                                  !.name = name,
                                  !.data = IF data # None THEN data ELSE @]
                         IN /\ clock < MaxWrites
                            /\ schedules' = (schedules \ {row}) \cup {updated}
                            /\ clock' = now
                            /\ http' = [Exchange(client, "put", request, 200,
                                                 [ok |-> TRUE])
                                          EXCEPT !.at = now]
  /\ UNCHANGED <<phase, courses_df, majors_data, rag_pipeline, callvars, envvars,
                 previous, apivars, users, sessions>>

\* PUT /api/schedules/<schedule_id>
PutSchedule(client) ==
  /\ phase = "serving"
  /\ http = NoRequest
  /\ \E schedule_id \in ScheduleIds(schedules), body \in PutBodies :
       LET oid == ObjectId(schedule_id)
           request == [schedule_id |-> schedule_id, name |-> body.name,
                       data |-> body.data]
           data == body.data
           name == stripped(IF falsy(body.name) THEN "" ELSE body.name.value)
           now == clock + 1
       IN IF "user_id" \notin DOMAIN sessions[client]
            THEN /\ http' = Exchange(client, "put", request, 401, Unauthorized)
                 /\ UNCHANGED <<schedules, clock>>
          ELSE IF oid.tag = "InvalidId"
            THEN /\ http' = Exchange(client, "put", request, 400,
                                     [error |-> "Invalid id"])
                 /\ UNCHANGED <<schedules, clock>>
          ELSE LET found == find_schedules(schedules, oid,
                                           sessions[client].user_id)
               IN IF found = {}
                    THEN /\ http' = Exchange(client, "put", request, 404,
                                             [error |-> "Not found"])
                         /\ UNCHANGED <<schedules, clock>>
                    ELSE LET row == CHOOSE row \in found : TRUE
                             updated ==
                               [row EXCEPT
                                  !.updated_at = now,
                                  !.name = IF name # "" THEN name ELSE @,
                                  !.data = IF data # None THEN data ELSE @]
                         IN /\ clock < MaxWrites
                            /\ schedules' = (schedules \ {row}) \cup {updated}
                            /\ clock' = now
                            /\ http' = [Exchange(client, "put", request, 200,
                                                 [ok |-> TRUE])
                                          EXCEPT !.at = now]
  /\ UNCHANGED <<phase, courses_df, majors_data, rag_pipeline, callvars, envvars,
                 previous, apivars, users, sessions>>

\* Variant of DeleteSchedule with a defect: the identifier is validated
\* before the session is looked at.
DeleteSchedule_validates_first(client) ==
  /\ phase = "serving"
  /\ http = NoRequest
  /\ \E schedule_id \in ScheduleIds(schedules) :
       LET oid == ObjectId(schedule_id)
           request == [schedule_id |-> schedule_id]
       IN IF oid.tag = "InvalidId"
            THEN /\ http' = Exchange(client, "delete", request, 400,
                                     [error |-> "Invalid id"])
                 /\ UNCHANGED schedules
          ELSE IF "user_id" \notin DOMAIN sessions[client]
            THEN /\ http' = Exchange(client, "delete", request, 401, Unauthorized)
                 /\ UNCHANGED schedules
          ELSE LET found == find_schedules(schedules, oid,
                                           sessions[client].user_id)
               IN IF found = {}
                    THEN /\ http' = Exchange(client, "delete", request, 404,
                                             [error |-> "Not found"])
                         /\ UNCHANGED schedules
                    ELSE /\ schedules' = schedules \ {CHOOSE row \in found : TRUE}
                         /\ http' = Exchange(client, "delete", request, 200,
                                             [ok |-> TRUE])
  /\ UNCHANGED <<phase, courses_df, majors_data, rag_pipeline, callvars, envvars,
                 previous, apivars, users, sessions, clock>>

\* DELETE /api/schedules/<schedule_id>
DeleteSchedule(client) ==
  /\ phase = "serving"
  /\ http = NoRequest
  /\ \E schedule_id \in ScheduleIds(schedules) :
       LET oid == ObjectId(schedule_id)
           request == [schedule_id |-> schedule_id]
       IN IF "user_id" \notin DOMAIN sessions[client]
            THEN /\ http' = Exchange(client, "delete", request, 401, Unauthorized)
                 /\ UNCHANGED schedules
          ELSE IF oid.tag = "InvalidId"
            THEN /\ http' = Exchange(client, "delete", request, 400,
                                     [error |-> "Invalid id"])
                 /\ UNCHANGED schedules
          ELSE LET found == find_schedules(schedules, oid,
                                           sessions[client].user_id)
               IN IF found = {}
                    THEN /\ http' = Exchange(client, "delete", request, 404,
                                             [error |-> "Not found"])
                         /\ UNCHANGED schedules
                    ELSE /\ schedules' = schedules \ {CHOOSE row \in found : TRUE}
                         /\ http' = Exchange(client, "delete", request, 200,
                                             [ok |-> TRUE])
  /\ UNCHANGED <<phase, courses_df, majors_data, rag_pipeline, callvars, envvars,
                 previous, apivars, users, sessions, clock>>

\* The client has the response; the next request is served.
Respond ==
  /\ http # NoRequest
  /\ http' = NoRequest
  /\ UNCHANGED <<phase, courses_df, majors_data, rag_pipeline, callvars, envvars,
                 previous, apivars, users, schedules, sessions, clock>>

\* No CSV file and no API key; two browsers.
InitStore ==
  Boot({[p \in Range(csv_paths) |-> FileMissing]},
       {[GEMINI_API_KEY |-> NoKey, build_fails |-> FALSE]}, Clients)

NextStore ==
  \/ LoadCourseData
  \/ LoadMajorsData
  \/ InitRagPipeline
  \/ \E client \in Clients :
       \/ Signup(client)
       \/ Login(client)
       \/ Logout(client)
       \/ ListSchedules(client)
       \/ CreateSchedule(client)
       \/ GetSchedule(client)
       \/ PutSchedule(client)
       \/ DeleteSchedule(client)
  \/ Respond

SpecStore == InitStore /\ [][NextStore]_vars

----------------------------------------------------------------------------
\* Properties

\* The call in flight has returned a plan built by the deterministic assembler.
AssemblerReturned ==
  /\ pc = "done"
  /\ result.tag = "plan"
  /\ \/ entry = "generate_basic_four_year_plan"
     \/ entry = "generate_four_year_plan" /\ rag_pipeline.tag = "None"

\* The placed courses of a semester list, read semester by semester.
RECURSIVE placed_courses(_, _)
placed_courses(sems, i) ==
  IF i > Len(sems) THEN <<>> ELSE sems[i].courses \o placed_courses(sems, i + 1)

\* Number of entries of the semester list that carry the identifier.
occurrences(sems, course) ==
  Cardinality({k \in DOMAIN placed_courses(sems, 1) :
                 course_code(placed_courses(sems, 1)[k].subject,
                             placed_courses(sems, 1)[k].number) = course})

\* C1: no course placed in any semester of a plan returned by the assembler
\* has an identifier "SUBJECT NUMBER" that is in the completed-course set.
C1_NoCompletedCoursePlaced ==
  AssemblerReturned =>
    \A i \in DOMAIN result.plan.semesters :
      \A k \in DOMAIN result.plan.semesters[i].courses :
        course_code(result.plan.semesters[i].courses[k].subject,
                    result.plan.semesters[i].courses[k].number)
          \notin args.completed_courses

\* A plan with placed courses was returned for a request whose completed set
\* names a requirement course of the major that the catalog has.
C1_Witness ==
  /\ AssemblerReturned
  /\ args.major = "Computer Science"
  /\ <<"COMPSCI", "61A">> \in args.completed_courses
  /\ get_course_info(courses_df, "COMPSCI", "61A").tag = "row"
  /\ result.plan.semesters # <<>>
  /\ result.plan.semesters[1].courses # <<>>

\* C2: whenever a course is appended to a semester, that semester's unit
\* total just before the append is below 16; a semester at 16 or more units
\* gets no further course.
C2_AppendOnlyBelowSixteen ==
  [][ (pc = "assemble" /\ pc' # "idle") =>
        \A i \in DOMAIN semesters :
          Len(semesters'[i].courses) > Len(semesters[i].courses)
            => semesters[i].units < 16 ]_vars

\* A semester was pushed past 16 units and the next course went to the
\* following semester.
C2_Witness ==
  /\ pc = "assemble"
  /\ Len(semesters) >= 2
  /\ semesters[1].units > 16
  /\ semesters[2].courses # <<>>

\* C3: for graduationSemester in {Fall, Spring} and currentYear <=
\* graduationYear, the semester sequence of the assembler is non-empty and its
\* last entry has year = graduationYear and term = graduationSemester.
C3_LastSemesterIsGraduation ==
  (/\ pc \in {"assemble", "done"}
   /\ args.major \in DOMAIN majors_data
   /\ \/ entry = "generate_basic_four_year_plan"
      \/ entry = "generate_four_year_plan" /\ rag_pipeline.tag = "None"
   /\ result.tag # "raise"
   /\ args.graduation_semester \in {"Fall", "Spring"}
   /\ args.current_year <= args.graduation_year)
  => LET sems == IF pc = "done" THEN result.plan.semesters ELSE semesters IN
       /\ sems # <<>>
       /\ sems[Len(sems)].year = args.graduation_year
       /\ sems[Len(sems)].term = args.graduation_semester

\* The requirement course visited by the step about to be taken.
current_item ==
  requirement_courses(majors_data[args.major].requirements, 1)[pos + 1]

\* C4: a requirement course that the catalog has, that is not completed and
\* that is reached while the semester pointer is inside the semester sequence
\* is in the semester list exactly once from then on, no identifier is ever
\* placed twice, and the returned plan carries that semester list.
C4_EligibleCoursePlacedExactlyOnce ==
  [][ /\ (pc = "assemble" /\ pc' = "done" /\ result'.tag = "plan")
          => result'.plan.semesters = semesters
      /\ (pc = "assemble" /\ pc' = "assemble") =>
        /\ (/\ current_item.course \notin args.completed_courses
            /\ semester_idx < Len(semesters)
            /\ Len(split(current_item.course)) >= 2
            /\ get_course_info(courses_df, split(current_item.course)[1],
                               split(current_item.course)[2]).tag = "row")
           => occurrences(semesters', current_item.course) = 1
        /\ \A k \in DOMAIN placed_courses(semesters', 1) :
             occurrences(semesters',
                         course_code(placed_courses(semesters', 1)[k].subject,
                                     placed_courses(semesters', 1)[k].number)) = 1
        /\ \A k \in DOMAIN placed_courses(semesters, 1) :
             placed_courses(semesters', 1)[k] = placed_courses(semesters, 1)[k] ]_vars

\* The assembler returned a plan in which the semester pointer had moved on
\* and every semester but the last one used holds courses.
C4_Witness ==
  /\ AssemblerReturned
  /\ semester_idx >= 2
  /\ Len(placed_courses(result.plan.semesters, 1)) >= 6
  /\ args.completed_courses # {}

\* C5: the assembler returns not-found (None) for every major name that is
\* not a key of the major catalog, whatever the other arguments.
C5_UnknownMajorNotFound ==
  (/\ entry = "generate_basic_four_year_plan"
   /\ args.major \notin DOMAIN majors_data)
  => pc = "done" /\ result = None

C5_Witness ==
  /\ entry = "generate_basic_four_year_plan"
  /\ pc = "done"
  /\ args.major = "NonexistentMajor"
  /\ args.graduation_semester = "Spring"
  /\ args.completed_courses = {}
  /\ result = None

\* generate_schedule met a failure in the call in flight.
RagFailed ==
  rag_log \in {"Vector store not initialized", "Error generating RAG schedule",
               "Error parsing schedule response"}

\* C6: when the RAG layer is Ready and a step of schedule generation fails,
\* the plan returned by plan generation equals the deterministic assembler's
\* output for the same arguments.
C6_FailureFallsBackToAssembler ==
  (/\ pc = "done"
   /\ entry = "generate_four_year_plan"
   /\ rag_pipeline.tag # "None"
   /\ RagFailed)
  => result = generate_basic_four_year_plan(courses_df, majors_data, args)

\* C7: no identifier of the completed-course set appears in the plan returned
\* by plan generation, on the RAG path or the assembler path.
C7_NoCompletedCourseInGeneratedPlan ==
  (/\ pc = "done"
   /\ entry = "generate_four_year_plan"
   /\ result.tag = "plan")
  => \A i \in DOMAIN result.plan.semesters :
       \A k \in DOMAIN result.plan.semesters[i].courses :
         course_code(result.plan.semesters[i].courses[k].subject,
                     result.plan.semesters[i].courses[k].number)
           \notin args.completed_courses

\* C8: a plan request for a major absent from the major catalog is returned
\* by plan generation as not-found (None) in every RAG state.
C8_UnknownMajorNotFoundAtDispatch ==
  (/\ pc = "done"
   /\ entry = "generate_four_year_plan"
   /\ args.major \notin DOMAIN majors_data)
  => result = None

type_rank(req_type) ==
  CASE req_type = "lower_division" -> 1
    [] req_type = "upper_division" -> 2
    [] req_type = "breadth" -> 3

\* Where the requirement structure lists a placed course: the indices of its
\* requirement type, its group and its place in the group.
listed_positions(requirements, placed) ==
  UNION { UNION { { <<c, g, k>> : k \in
                      {k \in DOMAIN requirements[c].groups[g].courses :
                         /\ requirements[c].req_type = placed.requirement_type
                         /\ requirements[c].groups[g].name = placed.requirement_name
                         /\ requirements[c].groups[g].courses[k]
                              = course_code(placed.subject, placed.number)} }
                  : g \in DOMAIN requirements[c].groups }
          : c \in DOMAIN requirements }

listed_before(a, b) ==
  \/ a[1] < b[1]
  \/ a[1] = b[1] /\ a[2] < b[2]
  \/ a[1] = b[1] /\ a[2] = b[2] /\ a[3] < b[3]

\* C9: reading an assembled plan semester by semester, lower_division courses
\* come before upper_division courses, which come before breadth courses, and
\* courses keep the listed order of their groups and of their places in a
\* group.
C9_PlacedInRequirementOrder ==
  AssemblerReturned =>
    LET placed == placed_courses(result.plan.semesters, 1)
        requirements == majors_data[args.major].requirements
    IN \A p, q \in DOMAIN placed :
         p < q =>
           /\ type_rank(placed[p].requirement_type)
                <= type_rank(placed[q].requirement_type)
           /\ \A a \in listed_positions(requirements, placed[p]) :
                \A b \in listed_positions(requirements, placed[q]) :
                  listed_before(a, b)
           /\ listed_positions(requirements, placed[p]) # {}
           /\ listed_positions(requirements, placed[q]) # {}

\* A returned plan holds courses of all three requirement types, spread over
\* several semesters.
C9_Witness ==
  /\ AssemblerReturned
  /\ semester_idx >= 2
  /\ \A t \in {"lower_division", "upper_division", "breadth"} :
       \E k \in DOMAIN placed_courses(result.plan.semesters, 1) :
         placed_courses(result.plan.semesters, 1)[k].requirement_type = t

\* The example request: Computer Science, graduation Spring 2028, current
\* year 2024, nothing completed, on the sample course data.
SampleComputerScienceCall ==
  /\ AssemblerReturned
  /\ courses_df = DataFrame(create_sample_course_data)
  /\ args = [major |-> "Computer Science", graduation_year |-> 2028,
             graduation_semester |-> "Spring", current_year |-> 2024,
             completed_courses |-> {}]

\* C10: on the sample course data, the plan for Computer Science, Spring 2028,
\* current year 2024 and no completed courses has COMPSCI 61A and COMPSCI 61B
\* in its first semester, and no upper_division course in the first semester
\* or anywhere before those two courses.
C10_SamplePlanStartsWithIntroCourses ==
  SampleComputerScienceCall =>
    LET first == result.plan.semesters[1].courses
        placed == placed_courses(result.plan.semesters, 1)
    IN /\ \E k \in DOMAIN first : first[k].subject = "COMPSCI" /\ first[k].number = "61A"
       /\ \E k \in DOMAIN first : first[k].subject = "COMPSCI" /\ first[k].number = "61B"
       /\ \A k \in DOMAIN first : first[k].requirement_type # "upper_division"
       /\ \A u, k \in DOMAIN placed :
            (/\ placed[u].requirement_type = "upper_division"
             /\ placed[k].subject = "COMPSCI"
             /\ placed[k].number \in {"61A", "61B"})
            => k < u

\* The example request returned a plan that places an upper_division course.
C10_Witness ==
  /\ SampleComputerScienceCall
  /\ \E k \in DOMAIN placed_courses(result.plan.semesters, 1) :
       placed_courses(result.plan.semesters, 1)[k].requirement_type = "upper_division"


\* C12: without a pipeline (RAG Disabled) generate_four_year_plan returns, for
\* every argument tuple, exactly what the assembler returns for the same
\* arguments and catalogs: the same plan, the same not-found, the same failure.
C12_DisabledDispatchEqualsAssembler ==
  (/\ pc = "done"
   /\ entry = "generate_four_year_plan"
   /\ rag_pipeline = None)
  => result = generate_basic_four_year_plan(courses_df, majors_data, args)

\* A dispatch without a pipeline returned a plan with courses for a student
\* who does not start four years before graduation and has completed courses.
C12_Witness ==
  /\ pc = "done"
  /\ entry = "generate_four_year_plan"
  /\ rag_pipeline = None
  /\ result.tag = "plan"
  /\ args.current_year # args.graduation_year - 4
  /\ args.completed_courses # {}
  /\ Len(placed_courses(result.plan.semesters, 1)) >= 2

\* The step about to be taken places a requirement course that the catalog
\* has: it is not completed and the semester pointer is inside the list.
PlacesCurrentItem ==
  /\ pc = "assemble"
  /\ pos < Len(requirement_courses(majors_data[args.major].requirements, 1))
  /\ current_item.course \notin args.completed_courses
  /\ semester_idx < Len(semesters)
  /\ Len(split(current_item.course)) >= 2
  /\ get_course_info(courses_df, split(current_item.course)[1],
                     split(current_item.course)[2]).tag = "row"

\* C18: a requirement course whose catalog row has no units value is placed
\* with units 4, adds 4 to the unit total of its semester, and plan generation
\* does not fail.
C18_MissingUnitsTreatedAsFour ==
  [][ (/\ PlacesCurrentItem
       /\ pos' = pos + 1
       /\ get_course_info(courses_df, split(current_item.course)[1],
                          split(current_item.course)[2]).row.Units = << >>)
      => /\ result' # Raised
         /\ semesters'[semester_idx + 1].units = semesters[semester_idx + 1].units + 4
         /\ LET courses == semesters'[semester_idx + 1].courses IN
              /\ Len(courses) = Len(semesters[semester_idx + 1].courses) + 1
              /\ courses[Len(courses)].units = 4 ]_vars


\* The state of the RAG layer: Uninitialized until init_rag_pipeline has run,
\* then Ready with a pipeline and Disabled without one.
RagState ==
  IF phase # "serving" THEN "Uninitialized"
  ELSE IF rag_pipeline = None THEN "Disabled" ELSE "Ready"

\* C13: the RAG layer leaves Uninitialized once, for Ready exactly when the
\* credential is present and the index build succeeds and for Disabled
\* otherwise; Ready and Disabled are never left; there is no pipeline before,
\* and a pipeline in Ready has its retriever.
C13_RagStateMachine ==
  [][ /\ RagState = "Uninitialized" => rag_pipeline = None
      /\ (RagState = "Uninitialized" /\ RagState' # "Uninitialized")
           => /\ phase = "init_rag_pipeline"
              /\ RagState' = "Ready"
                   <=> (/\ environ.GEMINI_API_KEY \notin {NoKey, <<"">>}
                        /\ ~environ.build_fails)
              /\ RagState' = "Disabled"
                   <=> (\/ environ.GEMINI_API_KEY \in {NoKey, <<"">>}
                        \/ environ.build_fails)
      /\ RagState = "Ready" => RagState' = "Ready" /\ rag_pipeline' = rag_pipeline
      /\ RagState = "Disabled" => RagState' = "Disabled"
      /\ RagState' = "Ready" => rag_pipeline'.retriever ]_vars

\* Ready was reached from a sample-data catalog, and a lookup has been served.
C13_Witness ==
  /\ RagState = "Ready"
  /\ rag_pipeline.retriever
  /\ courses_df = DataFrame(create_sample_course_data)
  /\ query # NoQuery

\* The candidate paths that exist, by position.
existing_paths == {i \in DOMAIN csv_paths : files[csv_paths[i]] # FileMissing}

\* C20: once load_course_data has run the course table is never null: it is
\* the parsed content of the first existing candidate path, or the sample set
\* when no candidate exists or when reading that first existing file fails.
C20_LoadAlwaysLeavesTable ==
  phase # "load_course_data" =>
    /\ courses_df # None
    /\ courses_df.tag = "DataFrame"
    /\ existing_paths = {} => courses_df.rows = create_sample_course_data
    /\ \A i \in existing_paths :
         (\A j \in existing_paths : i <= j) =>
           courses_df.rows = IF files[csv_paths[i]].readable
                               THEN files[csv_paths[i]].rows
                               ELSE create_sample_course_data

\* The first path is missing, the second holds a readable file and the third
\* another one; the table loaded is the content of the second.
C20_Witness ==
  /\ phase = "serving"
  /\ files[csv_paths[1]] = FileMissing
  /\ files[csv_paths[2]] = CsvFile(csv_courses, TRUE)
  /\ files[csv_paths[3]] = CsvFile(csv_courses_blank_units, TRUE)
  /\ courses_df = DataFrame(csv_courses)

\* The rows of the loaded table that a lookup key equals in both fields.
matching_rows(subject, number) ==
  {i \in DOMAIN courses_df.rows :
     /\ courses_df.rows[i].Subject = subject
     /\ courses_df.rows[i].CourseNumber = number}

\* C19: get_course_info returns a record exactly when some row of the table
\* equals the key in subject and in number, case included, and the record is
\* the first such row; on the sample set every sample row is found with its
\* own units and terms, ("MATH", "1A") with units 4 and terms
\* "Fall, Spring, Summer", and ("COMPSCI", "61a") is not found.
C19_LookupIsExactMatch ==
  query.tag = "get_course_info" =>
    /\ query.result # None <=> matching_rows(query.subject, query.number) # {}
    /\ query.result # None =>
         \E i \in matching_rows(query.subject, query.number) :
           /\ \A j \in matching_rows(query.subject, query.number) : i <= j
           /\ query.result.row = courses_df.rows[i]
    /\ courses_df = DataFrame(create_sample_course_data) =>
         /\ \A i \in DOMAIN create_sample_course_data :
              (/\ query.subject = create_sample_course_data[i].Subject
               /\ query.number = create_sample_course_data[i].CourseNumber)
              => /\ query.result # None
                 /\ query.result.row.Units = create_sample_course_data[i].Units
                 /\ query.result.row.TermsOffered
                      = create_sample_course_data[i].TermsOffered
         /\ (query.subject = "MATH" /\ query.number = "1A")
              => /\ query.result.row.Units = <<4>>
                 /\ query.result.row.TermsOffered = "Fall, Spring, Summer"
         /\ (query.subject = "COMPSCI" /\ query.number = "61a")
              => query.result = None

\* On a table that holds both MATH 1A and math 1a, the lookup of ("MATH", "1a")
\* found nothing.
C19_Witness ==
  /\ query.tag = "get_course_info"
  /\ courses_df = DataFrame(csv_courses)
  /\ query.subject = "MATH"
  /\ query.number = "1a"
  /\ query.result = None


\* C11: a call of the assembler with the arguments of an earlier call, against
\* the catalogs as that call left them, returns what the earlier call returned.
C11_SameArgumentsSamePlan ==
  (/\ pc = "done"
   /\ entry = "generate_basic_four_year_plan"
   /\ previous # NoCall
   /\ args = previous.args)
  => result = previous.result

\* The second of two calls with completed courses returned a plan that places
\* at least six courses.
C11_Witness ==
  /\ pc = "done"
  /\ entry = "generate_basic_four_year_plan"
  /\ previous # NoCall
  /\ args = previous.args
  /\ args.completed_courses # {}
  /\ result.tag = "plan"
  /\ Len(placed_courses(result.plan.semesters, 1)) >= 6


\* Some stretch of the reply is a JSON object.
HoldsJsonObject(reply) ==
  \E i, j \in DOMAIN reply :
    json_loads(SubSeq(reply, i, j), suggestion_bodies).tag = "object"

\* The suggestion request that was answered met a failure: no pipeline, no
\* retriever, a raising step, or a reply that holds no JSON object.
SuggestionFailed ==
  \/ rag_pipeline = None
  \/ ~rag_pipeline.retriever
  \/ sug.raised # "none"
  \/ sug.reply # << >> /\ ~HoldsJsonObject(sug.reply[1])

AdvisoryStrings ==
  {unable_to_generate.advice, suggestions_unavailable.advice,
   currently_unavailable.advice}

\* C14: a suggestion request with a major and a semester that meets a failure
\* is answered 200 with an empty suggestion list and one of the fixed advisory
\* strings, never with an error response.
C14_SuggestionFailureGivesAdvisory ==
  (/\ sug # NoSuggestion
   /\ sug.pc = "done"
   /\ ~falsy(sug.major)
   /\ ~falsy(sug.semester)
   /\ SuggestionFailed)
  => /\ sug.response.status = 200
     /\ DOMAIN sug.response.body = {"suggestions", "advice"}
     /\ sug.response.body.suggestions = << >>
     /\ sug.response.body.advice \in AdvisoryStrings

\* With a pipeline, a reply without any JSON object was answered with the
\* fixed advice.
C14_Witness ==
  /\ sug # NoSuggestion
  /\ sug.pc = "done"
  /\ rag_pipeline # None
  /\ sug.reply = << <<"{", "suggest MATH 1B">> >>
  /\ sug.response = Response(200, unable_to_generate)


\* C17: once the catalogs are loaded, no step of any request changes the
\* course catalog or the major catalog, however the requests interleave.
C17_CatalogsReadOnlyAfterLoad ==
  [][ phase = "serving"
        => /\ courses_df' = courses_df
           /\ majors_data' = majors_data
           /\ courses_df = load_course_data(files)
           /\ majors_data = load_majors_data ]_vars

\* A plan request and a suggestion request both wait for the model while a
\* major query has been answered.
C17_Witness ==
  /\ pc = "rag_generate"
  /\ sug # NoSuggestion
  /\ sug.pc = "generate"
  /\ query.tag = "get_major_details"
  /\ query.response.status = 200


\* The step serves a schedule request of a client with a session.
ServesAuthenticated(ops) ==
  /\ http = NoRequest
  /\ http' # NoRequest
  /\ http'.op \in ops
  /\ "user_id" \in DOMAIN sessions[http'.client]

\* C15: a GET, PUT or DELETE by an authenticated user reads, changes or
\* removes the schedule named in the path only if the user owns it; for a
\* schedule of another user the answer is 404 and the store is unchanged; no
\* request changes a schedule of another user; the listing holds exactly the
\* caller's own schedules.
C15_OnlyOwnSchedules ==
  [][ ServesAuthenticated({"list", "get", "put", "delete"}) =>
        LET caller == sessions[http'.client].user_id
            own == {row \in schedules : row.user_id = caller}
        IN /\ (schedules \ own) \subseteq schedules'
           /\ http'.op = "list" =>
                /\ http'.status = 200
                /\ {http'.body[k].id : k \in DOMAIN http'.body}
                     = {str(row._id) : row \in own}
                /\ schedules' = schedules
           /\ http'.op # "list" =>
                \A row \in schedules :
                  str(row._id) = http'.request.schedule_id =>
                    IF row \in own
                      THEN /\ http'.status = 200
                           /\ http'.op = "get" =>
                                /\ http'.body = schedule_json(row)
                                /\ schedules' = schedules
                           /\ http'.op = "delete" => schedules' = schedules \ {row}
                           /\ http'.op = "put" =>
                                \E updated \in schedules' :
                                  /\ updated._id = row._id
                                  /\ updated.user_id = caller
                                  /\ schedules' \ {updated} = schedules \ {row}
                      ELSE /\ http'.status = 404
                           /\ schedules' = schedules ]_vars

\* A signed-in user asked to update a schedule that another user owns and was
\* told that it does not exist.
C15_Witness ==
  /\ http # NoRequest
  /\ http.op = "put"
  /\ http.status = 404
  /\ "user_id" \in DOMAIN sessions[http.client]
  /\ \E row \in schedules :
       /\ str(row._id) = http.request.schedule_id
       /\ row.user_id # sessions[http.client].user_id
       /\ row.data = Dict([plan |-> "A"])

\* C16: a GET, PUT or DELETE by an authenticated user whose path identifier is
\* not 24 hexadecimal characters is answered 400 and leaves the stored
\* schedules and accounts as they are.
C16_MalformedIdIsClientError ==
  [][ (/\ ServesAuthenticated({"get", "put", "delete"})
       /\ ~(/\ http'.request.schedule_id.chars = 24
            /\ http'.request.schedule_id.hex))
      => /\ http'.status = 400
         /\ schedules' = schedules
         /\ users' = users ]_vars

\* The owner of a schedule sent an update with the identifier cut short by
\* one character and got 400.
C16_Witness ==
  /\ http # NoRequest
  /\ http.op = "put"
  /\ http.status = 400
  /\ http.request.schedule_id.chars = 23
  /\ "user_id" \in DOMAIN sessions[http.client]
  /\ \E row \in schedules :
       /\ row._id = http.request.schedule_id.value
       /\ row.user_id = sessions[http.client].user_id


\* C21: a step of the assembler moves the semester pointer by one or not at
\* all; it moves exactly when the step appends a course to the pointed
\* semester and that semester's total is then 16 or more, the course staying
\* in this semester; so a semester with a course has only semesters of at
\* least 16 units before it.
C21_PointerAdvancesAtSixteen ==
  [][ pc = "assemble" =>
        /\ semester_idx' \in {semester_idx, semester_idx + 1}
        /\ semester_idx' = semester_idx + 1
             <=> /\ semester_idx < Len(semesters)
                 /\ Len(semesters'[semester_idx + 1].courses)
                      = Len(semesters[semester_idx + 1].courses) + 1
                 /\ semesters'[semester_idx + 1].units >= 16
        /\ \A i \in DOMAIN semesters' :
             semesters'[i].courses # << >>
               => \A j \in 1..(i - 1) : semesters'[j].units >= 16 ]_vars

\* The assembler returned with the pointer moved twice: the second semester
\* is full and the third one is still empty.
C21_Witness ==
  /\ AssemblerReturned
  /\ semester_idx = 2
  /\ Len(result.plan.semesters) >= 3
  /\ result.plan.semesters[2].units >= 16
  /\ result.plan.semesters[3].courses = << >>


\* The keys of the plan object of the assembler.
plan_keys ==
  {"major", "college", "graduation_year", "graduation_semester", "total_units",
   "semesters", "requirements", "ai_recommendations"}

\* C22: once the semester pointer is past the end of the semester list, a
\* step places nothing, appends no semester, leaves the pointer, raises
\* nothing, and the plan returned is the semester list built so far under the
\* usual keys, without any report of the dropped courses.
C22_CoursesPastTheEndAreDropped ==
  [][ (pc = "assemble" /\ ~(semester_idx < Len(semesters))) =>
        /\ semesters' = semesters
        /\ semester_idx' = semester_idx
        /\ result' # Raised
        /\ pc' = "done" =>
             /\ result'.tag = "plan"
             /\ result'.plan.semesters = semesters
             /\ DOMAIN result'.plan = plan_keys ]_vars

\* A plan was returned whose every semester is full while a requirement
\* course that is not completed and that the catalog has is in no semester.
C22_Witness ==
  /\ AssemblerReturned
  /\ Len(result.plan.semesters) >= 1
  /\ semester_idx = Len(result.plan.semesters)
  /\ \E item \in Range(requirement_courses(majors_data[args.major].requirements, 1)) :
       /\ item.course \notin args.completed_courses
       /\ Len(split(item.course)) >= 2
       /\ get_course_info(courses_df, split(item.course)[1],
                          split(item.course)[2]).tag = "row"
       /\ occurrences(result.plan.semesters, item.course) = 0


\* The identifier does not split into a subject and a number, or the catalog
\* has no row for them.
NotInCatalog(course) ==
  \/ Len(split(course)) < 2
  \/ get_course_info(courses_df, split(course)[1], split(course)[2]) = None

\* The requirement courses of the major of the call, in loop order.
call_items == requirement_courses(majors_data[args.major].requirements, 1)

\* C23: the step for a requirement course that is not in the catalog changes
\* neither the semester list nor the pointer, raises nothing and goes on to
\* the next identifier; the plan returned is the one the loop builds from the
\* requirement list with those identifiers left out.
C23_UnknownCourseSkipped ==
  [][ /\ (/\ pc = "assemble"
          /\ pos < Len(call_items)
          /\ NotInCatalog(current_item.course))
        => /\ semesters' = semesters
           /\ semester_idx' = semester_idx
           /\ pos' = pos + 1
           /\ pc' = "assemble"
           /\ result' = result
      /\ (pc = "assemble" /\ pc' = "done" /\ result'.tag = "plan")
        => result'.plan.semesters
             = assemble_loop(courses_df, args.completed_courses,
                             [semesters |-> build_semesters(args.current_year,
                                              args.graduation_year,
                                              args.graduation_semester),
                              semester_idx |-> 0, raised |-> FALSE],
                             SelectSeq(call_items,
                                       LAMBDA item : ~NotInCatalog(item.course)),
                             1).semesters ]_vars

\* A plan was returned in which a course is placed that the requirement list
\* names after a course that is neither completed nor in the catalog.
C23_Witness ==
  /\ AssemblerReturned
  /\ \E k1, k2 \in DOMAIN call_items :
       /\ k1 < k2
       /\ call_items[k1].course \notin args.completed_courses
       /\ NotInCatalog(call_items[k1].course)
       /\ occurrences(result.plan.semesters, call_items[k2].course) = 1


\* C24: whatever the model replies and whatever fails, the value that
\* generate_schedule returns is a schedule object that has the keys major and
\* semesters.
C24_ScheduleHasMajorAndSemesters ==
  (/\ pc = "done"
   /\ entry = "generate_four_year_plan"
   /\ rag_pipeline # None)
  => /\ result.tag = "plan"
     /\ {"major", "semesters"} \subseteq DOMAIN result.plan

\* The reply holds a JSON object that lacks a required key.
LacksRequiredKey(response) ==
  LET cleaned == strip(remove_fences(strip(response)))
      loaded == json_loads(SubSeq(cleaned, find(cleaned, "{") + 1,
                                  rfind(cleaned, "}") + 1),
                           json_bodies(args.major, args.graduation_year,
                                       args.graduation_semester))
  IN /\ loaded.tag = "object"
     /\ ~({"major", "semesters"} \subseteq DOMAIN loaded.value)

\* generate_schedule returned the fallback schedule after a reply whose
\* object has no semesters key.
C24_Witness ==
  /\ pc = "done"
  /\ entry = "generate_four_year_plan"
  /\ rag_pipeline # None
  /\ rag_log = "Error parsing schedule response"
  /\ LacksRequiredKey(<<"{", "no semesters", "}">>)
  /\ result = Returned(_parse_schedule_response(majors_data,
                         <<"{", "no semesters", "}">>, args.major,
                         args.graduation_year, args.graduation_semester).schedule)


\* The semester list of the running or finished call of the assembler.
call_semesters ==
  IF pc = "done" THEN result.plan.semesters ELSE semesters

C25_EmptyListReached ==
  /\ AssemblerReturned
  /\ entry = "generate_basic_four_year_plan"
  /\ args.current_year > args.graduation_year
  /\ result.plan.semesters = << >>


\* The eligible courses of the call, in requirement order: not completed and
\* found in the catalog.
eligible_items ==
  SelectSeq(call_items,
            LAMBDA item : /\ item.course \notin args.completed_courses
                          /\ ~NotInCatalog(item.course))

\* C26: the courses of a returned plan, read semester by semester, are the
\* first courses of the eligible sequence in the same order, and the eligible
\* courses after them are in no semester.
C26_PlacedCoursesArePrefix ==
  AssemblerReturned =>
    LET placed == placed_courses(result.plan.semesters, 1) IN
      /\ Len(placed) <= Len(eligible_items)
      /\ \A k \in DOMAIN placed :
           course_code(placed[k].subject, placed[k].number) = eligible_items[k].course
      /\ \A k \in (Len(placed) + 1) .. Len(eligible_items) :
           occurrences(result.plan.semesters, eligible_items[k].course) = 0

\* A plan was returned that holds some eligible courses and leaves others
\* out, and a requirement course that is completed or that the catalog lacks
\* comes before a placed one.
C26_Witness ==
  /\ AssemblerReturned
  /\ LET placed == placed_courses(result.plan.semesters, 1) IN
       /\ Len(placed) > 0
       /\ Len(placed) < Len(eligible_items)
       /\ Len(eligible_items) < Len(call_items)
       /\ \E k \in DOMAIN call_items :
            /\ call_items[k].course \in args.completed_courses
               \/ NotInCatalog(call_items[k].course)
            /\ \E j \in DOMAIN call_items :
                 /\ j > k
                 /\ occurrences(result.plan.semesters, call_items[j].course) = 1


\* Sum of the units fields of the entries of a course list from entry k on.
RECURSIVE sum_units(_, _)
sum_units(courses, k) ==
  IF k > Len(courses) THEN 0 ELSE courses[k].units + sum_units(courses, k + 1)

\* C27: while the assembler runs and in the plan it returns, the units field
\* of every semester is the sum of the units fields of its courses, 0 for a
\* semester without courses.
C27_SemesterUnitsAreSum ==
  (pc = "assemble" \/ AssemblerReturned) =>
    \A i \in DOMAIN call_semesters :
      /\ call_semesters[i].units = sum_units(call_semesters[i].courses, 1)
      /\ call_semesters[i].courses = << >> => call_semesters[i].units = 0

\* A returned plan has a semester with courses of different units next to a
\* semester without courses.
C27_Witness ==
  /\ AssemblerReturned
  /\ \E i, j \in DOMAIN result.plan.semesters :
       /\ result.plan.semesters[j].courses = << >>
       /\ result.plan.semesters[j].units = 0
       /\ result.plan.semesters[i].units = 17
       /\ \E k, l \in DOMAIN result.plan.semesters[i].courses :
            /\ result.plan.semesters[i].courses[k].units = 5
            /\ result.plan.semesters[i].courses[l].units = 4


\* The addresses of the signup forms, trimmed and in lower case.
canonical_emails == {"ann@berkeley.edu", "bob@berkeley.edu"}

\* The step answers a signup whose normalized address belongs to an account.
SignupForRegisteredEmail ==
  /\ http = NoRequest
  /\ http' # NoRequest
  /\ http'.op = "signup"
  /\ \E user \in users : user.email = normalized(http'.request.email)

\* No two accounts have the same address, and every stored address is
\* trimmed and in lower case.
OneAccountPerEmail(accounts) ==
  /\ \A u, v \in accounts : u.email = v.email => u = v
  /\ \A u \in accounts : u.email \in canonical_emails

\* C28 as stated: at most one account per normalized address, and every
\* signup for a registered address is answered 409, creates no account and
\* leaves the sessions alone.
C28_RegisteredEmailAlways409 ==
  [][ /\ OneAccountPerEmail(users')
      /\ SignupForRegisteredEmail
           => /\ http'.status = 409
              /\ users' = users
              /\ sessions' = sessions ]_vars

\* C28: at most one account per normalized address; a signup for a
\* registered address creates no account and leaves the sessions alone, and
\* it is answered 409 when its password has at least 6 characters and 400
\* when the password is shorter.
C28_OneAccountPerNormalizedEmail ==
  [][ /\ OneAccountPerEmail(users')
      /\ SignupForRegisteredEmail
           => /\ http'.status
                   = IF password_len(http'.request.password) >= 6 THEN 409 ELSE 400
              /\ users' = users
              /\ sessions' = sessions ]_vars

\* A client signed in as one user asked to sign up with the address of the
\* other account in another spelling; the answer is 409 and the session is
\* the one it was.
C28_Witness ==
  /\ http # NoRequest
  /\ http.op = "signup"
  /\ http.status = 409
  /\ http.request.email = Str(" Ann@Berkeley.edu ")
  /\ Cardinality(users) = 2
  /\ "user_id" \in DOMAIN sessions[http.client]
  /\ sessions[http.client].email = "bob@berkeley.edu"


\* The step serves a schedule request of a client without a session.
ServesUnauthenticated ==
  /\ http = NoRequest
  /\ http' # NoRequest
  /\ http'.op \in {"list", "create", "get", "put", "delete"}
  /\ "user_id" \notin DOMAIN sessions[http'.client]

\* C29: a list, create, get, update or delete request of a client without
\* user_id in its session is answered 401 and leaves the stored schedules as
\* they are, whatever the identifier in the path; a logout leaves the client
\* without user_id in its session.
C29_UnauthenticatedGets401 ==
  [][ /\ ServesUnauthenticated
           => /\ http'.status = 401
              /\ http'.body = Unauthorized
              /\ schedules' = schedules
      /\ (http = NoRequest /\ http' # NoRequest /\ http'.op = "logout")
           => "user_id" \notin DOMAIN sessions'[http'.client] ]_vars

\* After the owner of a schedule logged out, a delete with the identifier of
\* that schedule cut short by one character was answered 401, and the
\* schedule is still stored.
C29_Witness ==
  /\ http # NoRequest
  /\ http.op = "delete"
  /\ http.status = 401
  /\ http.request.schedule_id.chars = 23
  /\ \A client \in Clients : sessions[client] = << >>
  /\ \E row \in schedules : row._id = http.request.schedule_id.value


\* The name of an update request after or-'' and strip().
supplied_name(request) ==
  IF falsy(request.name) THEN "" ELSE stripped(request.name.value)

====
